---------------------------- MODULE Spec2Model ----------------------------
(***************************************************************************)
(* SpendSight: the classification cascade of UnifiedPipeline.py.           *)
(*                                                                         *)
(* main() submits one worker_process_file task per input file.  A worker   *)
(* parses the statement, stores its transactions and drives them through   *)
(* the four stages (regex, heuristic, bert, llm); when a statement already *)
(* exists for the file it re-runs the stages on the stored transactions.   *)
(* The database is modelled by its committed tables; each worker's         *)
(* connection holds the writes it has not committed yet.                   *)
(* Confidences and thresholds are percentages (0.50 is 50).                *)
(***************************************************************************)
EXTENDS Integers, Sequences, FiniteSets, TLC

VARIABLES
    input,                       \* file -> what parse_statement returns for it
    MINILM_LOW_CONF_THRESHOLD,   \* configuration, read once from the environment
    LLM_FALLBACK_CONF_THRESHOLD,
    LLM_RETRY_MAX,
    LLM_BATCH_SIZE,
    documents,                   \* committed table documents
    statements,                  \* committed table statements
    transactions,                \* committed table transactions (txn_id = index)
    classification_log,          \* committed table classification_log
    conn,                        \* per worker: the connection's uncommitted writes
    wk,                          \* per worker: locals of worker_process_file
    trace,                       \* per worker: the stage events of the current pass
    aggregated,                  \* main's running totals
    mainpc,                      \* main's position
    call,                        \* a function applied on its own: input, outcome
    _MODEL,                      \* miniLM_classifier globals of one process:
    _LABELS,                     \*   0 is None, n > 0 the n-th object built
    _EMBS,
    runs,                        \* invocations of main() still to come
    faults                       \* storage faults and exceptions still to be injected

vars == <<input, MINILM_LOW_CONF_THRESHOLD, LLM_FALLBACK_CONF_THRESHOLD,
          LLM_RETRY_MAX, LLM_BATCH_SIZE, documents, statements, transactions,
          classification_log, conn, wk, trace, aggregated, mainpc, runs, faults,
          call, _MODEL, _LABELS, _EMBS>>

config == <<input, MINILM_LOW_CONF_THRESHOLD, LLM_FALLBACK_CONF_THRESHOLD,
            LLM_RETRY_MAX, LLM_BATCH_SIZE, call, _MODEL, _LABELS, _EMBS>>

tables == <<documents, statements, transactions, classification_log>>

-----------------------------------------------------------------------------
(* Bounds of the model *)

MaxRows == 2      \* rows of one statement
MaxRuns == 2      \* invocations of main()
MaxFaults == 1    \* injected storage faults and exceptions
MaxRetry == 2     \* largest LLM_RETRY_MAX tried
MaxBatch == 2     \* largest LLM_BATCH_SIZE tried
MaxFiles == 2     \* input files of the multi-file specification

NULL == "NULL"
PENDING == "PENDING"

Max(a, b) == IF a >= b THEN a ELSE b
Min(a, b) == IF a <= b THEN a ELSE b

\* the least element of a set of positions
FirstOf(S) == CHOOSE k \in S : \A j \in S : k <= j

RECURSIVE SeqSum(_)
SeqSum(s) == IF s = <<>> THEN 0 ELSE Head(s) + SeqSum(Tail(s))

\* the subsequence of s whose elements satisfy Test, in order
SelectIdx(n, Test(_)) ==
    LET RECURSIVE go(_)
        go(k) == IF k > n THEN <<>>
                 ELSE (IF Test(k) THEN <<k>> ELSE <<>>) \o go(k + 1)
    IN go(1)

-----------------------------------------------------------------------------
(* Stage 1: regex_engine/regex_classifier.py                               *)

\* the characters that join the words of a text without a blank
Separators == {"-", "/", "@"}

\* the tokens made of digits only, and those of twelve to fifteen digits
Digits == {"12", "12345", "2024", "99887"}
LongIds == {"123456789012"}

\* [A-Z]+ matches the whole token; [A-Z]{3,} does
Alphabetic(token) ==
    token \notin Separators \cup Digits \cup LongIds \cup {"P2A", "12.50"}

Letters3(token) == Alphabetic(token) /\ token \notin {"DR", "OF", "R", "S"}

\* normalize_desc: upper case, glued tokens repaired (SALARYCREDIT becomes
\* SALARY CREDIT), UPI/<twelve digits or more>/ collapsed to UPI/, blanks
\* collapsed.  A normalized text is the sequence of its tokens: words and
\* separators; two neighbouring words have a blank between them.
normalize_desc(description) ==
    CASE description = "JIO" -> <<"JIO">>
      [] description = "IMPS P2A" -> <<"IMPS", "P2A">>
      [] description = "UPI" -> <<"UPI">>
      [] description = "ZXCV 12" -> <<"ZXCV", "12">>
      [] description = "mkt byculla" -> <<"MKT", "BYCULLA">>
      [] description = "CLG" -> <<"CLG">>
      [] description = "SALARY CREDIT FEB 2024" -> <<"SALARY", "CREDIT", "FEB", "2024">>
      [] description = "salarycredit" -> <<"SALARY", "CREDIT">>
      [] description = "NEFT SALARY CREDIT ACME" -> <<"NEFT", "SALARY", "CREDIT", "ACME">>
      [] description = "SALARY CREDIT DR RAWLE DENTAL CLINIC" ->
             <<"SALARY", "CREDIT", "DR", "RAWLE", "DENTAL", "CLINIC">>
      [] description = "CREDIT OF SALARY" -> <<"CREDIT", "OF", "SALARY">>
      [] description = "UPI-DR-SWIGGY-PAY" ->
             <<"UPI", "-", "DR", "-", "SWIGGY", "-", "PAY">>
      [] description = "UPI/SWIGGY@ybl" -> <<"UPI", "/", "SWIGGY", "@", "YBL">>
      [] description = "UPI-SALARY" -> <<"UPI", "-", "SALARY">>
      [] description = "UPI-ZXCV JIO" -> <<"UPI", "-", "ZXCV", "JIO">>
      [] description = "UPI/12/DR RAWLE DENTAL CLINIC" ->
             <<"UPI", "/", "12", "/", "DR", "RAWLE", "DENTAL", "CLINIC">>
      [] description = "UPI/ZXCV" -> <<"UPI", "/", "ZXCV">>
      [] description = "UPI/123456789012/ZXCV" -> <<"UPI", "/", "ZXCV">>
      [] description = "UPI/12345/ZXCV" -> <<"UPI", "/", "12345", "/", "ZXCV">>
      [] description = "VPA 12" -> <<"VPA", "12">>
      [] description = "UPI/RAMESH@YBL" -> <<"UPI", "/", "RAMESH", "@", "YBL">>
      [] description = "UPI/ZXCV@YBL" -> <<"UPI", "/", "ZXCV", "@", "YBL">>
      [] description = "XYZ UNKNOWN MERCHANT 99887" ->
             <<"XYZ", "UNKNOWN", "MERCHANT", "99887">>
      [] description = "CHAI 12" -> <<"CHAI", "12">>
      [] description = "ZXCV 12.50" -> <<"ZXCV", "12.50">>
      [] OTHER -> <<>>

\* key in desc_norm, for keys and texts that meet at word boundaries
Contains(text, key) ==
    \E i \in 0 .. (Len(text) - Len(key)) : SubSeq(text, i + 1, i + Len(key)) = key

Words(text) == { text[i] : i \in DOMAIN text }

\* token i of the text follows its neighbour without a blank
Glued(text, i) ==
    i > 1 /\ (text[i] \in Separators \/ text[i - 1] \in Separators)

\* desc_norm.split(): the pieces between blanks, each the sequence of its tokens
split(text) ==
    { SubSeq(text, p[1], p[2]) :
        p \in { q \in (DOMAIN text) \X (DOMAIN text) :
                  /\ q[1] <= q[2]
                  /\ ~Glued(text, q[1])
                  /\ q[2] = Len(text) \/ ~Glued(text, q[2] + 1)
                  /\ \A k \in (q[1] + 1) .. q[2] : Glued(text, k) } }

\* the tokens of the texts that hold a key word inside them
Infixes ==
    { <<"R", token>> :
        token \in {"DR", "RAWLE", "SALARY", "CREDIT", "MERCHANT", "RAMESH"} }

\* part in token, character by character
Within(part, token) == part = token \/ <<part, token>> \in Infixes

\* VENDOR_KEYS: keys of the vendor map, the longest first
VENDOR_KEYS ==
    << <<"DR", "RAWLE", "DENTEL", "CLINIC">>, <<"DR", "RAWLE", "DENTAL", "CLINIC">>,
       <<"SWIGGY", "INSTAMART">>, <<"R", "S", "ENTERPRISE">>,
       <<"SALARY", "CREDIT">>, <<"SWIGGY">>, <<"JIO">> >>

\* VENDOR_CATEGORY_MAP[key], with key.title() as the vendor
VENDOR_CATEGORY_MAP(key) ==
    CASE key = <<"DR", "RAWLE", "DENTEL", "CLINIC">> ->
             [category |-> "Healthcare", subcategory |-> "Consultation",
              vendor |-> "Dr Rawle Dentel Clinic"]
      [] key = <<"DR", "RAWLE", "DENTAL", "CLINIC">> ->
             [category |-> "Healthcare", subcategory |-> "Consultation",
              vendor |-> "Dr Rawle Dental Clinic"]
      [] key = <<"SWIGGY", "INSTAMART">> ->
             [category |-> "Groceries", subcategory |-> "OnlineGroceries",
              vendor |-> "Swiggy Instamart"]
      [] key = <<"R", "S", "ENTERPRISE">> ->
             [category |-> "Shopping", subcategory |-> "GeneralStore",
              vendor |-> "R S Enterprise"]
      [] key = <<"SALARY", "CREDIT">> ->
             [category |-> "Income", subcategory |-> "Salary",
              vendor |-> "Salary Credit"]
      [] key = <<"SWIGGY">> ->
             [category |-> "Dining", subcategory |-> "FoodDelivery",
              vendor |-> "Swiggy"]
      [] key = <<"JIO">> ->
             [category |-> "Utilities", subcategory |-> "MobileRecharge",
              vendor |-> "Jio"]

\* the result a rule builds from an entry of the vendor map
Answer(entry, confidence, meta) ==
    [category |-> entry.category, subcategory |-> entry.subcategory,
     vendor |-> entry.vendor, confidence |-> confidence, meta |-> meta]

\* extract_vendor_from_map: the first key contained in the text (0.95), else
\* the first key with 80% of its words among the pieces of the text (0.85),
\* else the first key that is one word held inside a piece (0.75) or whose
\* first word is held inside the text (0.80).
extract_vendor_from_map(desc_norm) ==
    LET desc_words == split(desc_norm)
        key_words(k) == { <<VENDOR_KEYS[k][i]>> : i \in DOMAIN VENDOR_KEYS[k] }
        exact == { k \in DOMAIN VENDOR_KEYS : Contains(desc_norm, VENDOR_KEYS[k]) }
        words == { k \in DOMAIN VENDOR_KEYS :
                     Cardinality(key_words(k) \cap desc_words) * 10
                         >= 8 * Cardinality(key_words(k)) }
        parts == { k \in DOMAIN VENDOR_KEYS :
                     IF Len(VENDOR_KEYS[k]) = 1
                     THEN \E word \in desc_words : \E i \in DOMAIN word :
                              Within(VENDOR_KEYS[k][1], word[i])
                     ELSE \E i \in DOMAIN desc_norm :
                              Within(VENDOR_KEYS[k][1], desc_norm[i]) }
    IN IF exact # {}
       THEN [matched |-> TRUE, key |-> VENDOR_KEYS[FirstOf(exact)], confidence |-> 95]
       ELSE IF words # {}
       THEN [matched |-> TRUE, key |-> VENDOR_KEYS[FirstOf(words)], confidence |-> 85]
       ELSE IF parts # {}
       THEN [matched |-> TRUE, key |-> VENDOR_KEYS[FirstOf(parts)],
             confidence |-> IF Len(VENDOR_KEYS[FirstOf(parts)]) = 1 THEN 75 ELSE 80]
       ELSE [matched |-> FALSE]

NoMerchant == [matched |-> FALSE, merchant |-> <<>>]

\* line 149, UPI.*?[-/]([A-Z]{3,}(?:\s+[A-Z]+)?)\b: the word of three letters
\* or more behind the first dash or slash after UPI that has one, with the
\* word after it when a blank parts them
upi_pattern_1(text_norm) ==
    LET starts == { u \in DOMAIN text_norm : text_norm[u] = "UPI" }
        at == { p \in DOMAIN text_norm :
                  /\ starts # {} /\ p > FirstOf(starts)
                  /\ text_norm[p] \in {"-", "/"}
                  /\ p < Len(text_norm) /\ Letters3(text_norm[p + 1]) }
        p == FirstOf(at)
    IN IF at = {} THEN NoMerchant
       ELSE IF p + 2 <= Len(text_norm) /\ Alphabetic(text_norm[p + 2])
       THEN [matched |-> TRUE, merchant |-> SubSeq(text_norm, p + 1, p + 2)]
       ELSE [matched |-> TRUE, merchant |-> SubSeq(text_norm, p + 1, p + 1)]

\* line 150, UPI/\d+/([A-Z\s]{3,}?)(?:/|@|\s|$): the shortest run of words of
\* three characters or more behind UPI/<digits>/ that a slash, an at sign, a
\* blank or the end follows
upi_pattern_2(text_norm) ==
    LET at == { u \in DOMAIN text_norm :
                  /\ u + 4 <= Len(text_norm)
                  /\ text_norm[u] = "UPI" /\ text_norm[u + 1] = "/"
                  /\ text_norm[u + 2] \in Digits \cup LongIds
                  /\ text_norm[u + 3] = "/"
                  /\ Alphabetic(text_norm[u + 4])
                  /\ Letters3(text_norm[u + 4]) =>
                         (u + 4 = Len(text_norm) \/ text_norm[u + 5] # "-")
                  /\ ~Letters3(text_norm[u + 4]) =>
                         /\ u + 5 <= Len(text_norm) /\ Alphabetic(text_norm[u + 5])
                         /\ u + 5 = Len(text_norm) \/ text_norm[u + 6] # "-" }
        u == FirstOf(at)
    IN IF at = {} THEN NoMerchant
       ELSE IF Letters3(text_norm[u + 4])
       THEN [matched |-> TRUE, merchant |-> SubSeq(text_norm, u + 4, u + 4)]
       ELSE [matched |-> TRUE, merchant |-> SubSeq(text_norm, u + 4, u + 5)]

\* line 151, ([A-Z]{3,}(?:\s+[A-Z]+)?)@(?:ybl|paytm|oksbi|okhdfcbank): the
\* handle domains are written in lower case and the text is upper case, so
\* the pattern matches no text
upi_pattern_3(text_norm) == NoMerchant

upi_patterns(text_norm) ==
    << upi_pattern_1(text_norm), upi_pattern_2(text_norm), upi_pattern_3(text_norm) >>

\* line 160: key in upi_merchant or upi_merchant in key
MerchantKeys(upi_merchant) ==
    { k \in DOMAIN VENDOR_KEYS :
        Contains(upi_merchant, VENDOR_KEYS[k]) \/ Contains(VENDOR_KEYS[k], upi_merchant) }

\* the confidence of a merchant found by the UPI extractor
UPI_VENDOR_CONFIDENCE == 90

\* a classifier without the UPI merchant extractor
upi_vendor_never(text_norm) == [matched |-> FALSE]

\* lines 146-168: the first pattern, in order, whose merchant meets a vendor
\* key decides, with the first such key
upi_vendor(text_norm) ==
    LET found == { n \in 1..3 :
                     /\ upi_patterns(text_norm)[n].matched
                     /\ MerchantKeys(upi_patterns(text_norm)[n].merchant) # {} }
        key == VENDOR_KEYS[FirstOf(MerchantKeys(
                   upi_patterns(text_norm)[FirstOf(found)].merchant))]
    IN IF "UPI" \notin Words(text_norm) \/ found = {}
       THEN [matched |-> FALSE]
       ELSE [matched |-> TRUE, key |-> key,
             result |-> Answer(VENDOR_CATEGORY_MAP(key), UPI_VENDOR_CONFIDENCE,
                               "upi_vendor")]

(* regex_engine/upi_utils.py                                               *)

\* UPI_MERCHANT_MAP and its keys, the longest first
UPI_KEYS == << <<"SWIGGY">> >>

UPI_MERCHANT_MAP(key) ==
    CASE key = <<"SWIGGY">> -> [category |-> "Dining", subcategory |-> "FoodDelivery"]

COMMON_INDIAN_NAME_PARTS == {"KUMAR", "RAJ", "RAMESH"}

\* str.title() of one word
Title(word) ==
    CASE word = "SWIGGY" -> "Swiggy"
      [] word = "RAMESH" -> "Ramesh"
      [] word = "ZXCV" -> "Zxcv"
      [] OTHER -> word

\* _looks_like_person for a prefix of one word: no merchant key in it and a
\* common name part
looks_like_person(prefix) ==
    /\ \A k \in DOMAIN UPI_KEYS : UPI_KEYS[k] # <<prefix>>
    /\ prefix \in COMMON_INDIAN_NAME_PARTS

\* UPI_HINT_RE, \bUPI[/\-]|/UPI/|VPA\b
UPI_HINT(text_norm) ==
    \/ \E i \in DOMAIN text_norm :
          text_norm[i] = "UPI" /\ i < Len(text_norm) /\ text_norm[i + 1] \in {"/", "-"}
    \/ "VPA" \in Words(text_norm)

\* classify_upi, lines 334-413: no hint; a payee handle (the word before the
\* first at sign, which a slash precedes in the texts used here): merchant
\* 0.90, person 0.80, business 0.70; else a transaction id of twelve to
\* fifteen digits and its merchant hint: 0.85, 0.75, 0.65; else PENDING/UPI
\* at 0.30
classify_upi(text_norm) ==
    LET handles == { a \in DOMAIN text_norm :
                       /\ a > 1 /\ a < Len(text_norm) /\ text_norm[a] = "@"
                       /\ text_norm[a - 1] \notin Separators
                       /\ text_norm[a + 1] \notin Separators }
        handle_prefix == text_norm[FirstOf(handles) - 1]
        ids == { u \in DOMAIN text_norm :
                   /\ u + 4 <= Len(text_norm)
                   /\ text_norm[u] = "UPI" /\ text_norm[u + 1] = "/"
                   /\ text_norm[u + 2] \in LongIds /\ text_norm[u + 3] = "/"
                   /\ text_norm[u + 4] \notin Separators }
        merchant_hint == text_norm[FirstOf(ids) + 4]
        Resolve(word, merchant, person, business) ==
            IF \E k \in DOMAIN UPI_KEYS : UPI_KEYS[k] = <<word>>
            THEN [category |-> UPI_MERCHANT_MAP(<<word>>).category,
                  subcategory |-> UPI_MERCHANT_MAP(<<word>>).subcategory,
                  vendor |-> Title(word), confidence |-> merchant, meta |-> "upi"]
            ELSE IF looks_like_person(word)
            THEN [category |-> "Transfers", subcategory |-> "ToPerson",
                  vendor |-> Title(word), confidence |-> person, meta |-> "upi"]
            ELSE [category |-> "Transfers", subcategory |-> "ToBusiness",
                  vendor |-> Title(word), confidence |-> business, meta |-> "upi"]
    IN IF ~UPI_HINT(text_norm)
       THEN [category |-> NULL, subcategory |-> NULL, vendor |-> NULL,
             confidence |-> 0, meta |-> NULL]
       ELSE IF handles # {} THEN Resolve(handle_prefix, 90, 80, 70)
       ELSE IF ids # {} THEN Resolve(merchant_hint, 85, 75, 65)
       ELSE [category |-> PENDING, subcategory |-> "UPI", vendor |-> NULL,
             confidence |-> 30, meta |-> "upi"]

\* lines 171-178: the answer of classify_upi is returned unless it is None,
\* PENDING or a transfer to a business
UpiAnswerReturned(upi) ==
    /\ upi.category \notin {NULL, PENDING}
    /\ upi.category # "Transfers" \/ upi.subcategory # "ToBusiness"

\* CATEGORY_REGEX and VENDOR_REGEX for the tokens of the texts used here
CATEGORY_REGEX(text_norm) ==
    IF "CHAI" \in Words(text_norm)
    THEN [matched |-> TRUE, category |-> "Dining", subcategory |-> "SnacksAndBeverages"]
    ELSE [matched |-> FALSE]

\* neft[-/], imps[-/], rtgs[-/], upi[-/] name the vendor BankTransfer
VENDOR_REGEX(text_norm) ==
    IF "CHAI" \in Words(text_norm)
    THEN [matched |-> TRUE, vendor |-> "Snacks/FastFood"]
    ELSE IF \E i \in DOMAIN text_norm :
               /\ text_norm[i] \in {"NEFT", "IMPS", "RTGS", "UPI"}
               /\ i < Len(text_norm) /\ text_norm[i + 1] \in {"-", "/"}
    THEN [matched |-> TRUE, vendor |-> "BankTransfer"]
    ELSE [matched |-> FALSE]

\* the confidence floor of the NEFT/IMPS/RTGS rule and of VENDOR_REGEX
TRANSFER_CONFIDENCE == 70

\* no rule has set a field yet
NoLabel ==
    [category |-> NULL, subcategory |-> NULL, vendor |-> NULL, confidence |-> 0,
     meta |-> NULL]

\* lines 183-194: a vendor-map hit sets vendor, category and subcategory
vendor_map_rule(vendor_match) ==
    IF vendor_match.matched
    THEN Answer(VENDOR_CATEGORY_MAP(vendor_match.key), vendor_match.confidence,
                "vendor_map")
    ELSE NoLabel

\* a transfer rule that answers below the MiniLM threshold
transfer_rule_low(words, s) ==
    IF words \cap {"NEFT", "IMPS", "RTGS"} # {} /\ s.category = NULL
    THEN [category |-> "Transfers", subcategory |-> "ToPerson",
          vendor |-> IF s.vendor # NULL THEN s.vendor ELSE "BankTransfer",
          confidence |-> 45, meta |-> "bank_transfer"]
    ELSE s

\* lines 283-287: NEFT, IMPS or RTGS in the text and no category yet
transfer_rule(words, s) ==
    IF words \cap {"NEFT", "IMPS", "RTGS"} # {} /\ s.category = NULL
    THEN [category |-> "Transfers", subcategory |-> "ToPerson",
          vendor |-> IF s.vendor # NULL THEN s.vendor ELSE "BankTransfer",
          confidence |-> Max(s.confidence, TRANSFER_CONFIDENCE),
          meta |-> "bank_transfer"]
    ELSE s

\* lines 313-327: the first CATEGORY_REGEX match when no category is set
category_regex_rule(m, s) ==
    IF s.category = NULL /\ m.matched
    THEN [s EXCEPT !.category = m.category, !.subcategory = m.subcategory,
                   !.confidence = Max(@, 80), !.meta = "category_regex"]
    ELSE s

\* lines 331-345: the first VENDOR_REGEX match when no vendor is set
vendor_regex_rule(m, s) ==
    IF s.vendor = NULL /\ m.matched
    THEN [s EXCEPT !.vendor = m.vendor,
                   !.category = IF @ = NULL THEN "Uncategorized" ELSE @,
                   !.confidence = Max(@, TRANSFER_CONFIDENCE),
                   !.meta = IF @ = NULL THEN "vendor_regex" ELSE @]
    ELSE s

\* lines 376-383: PENDING at 0.0 when no rule set a category
final_fallback(s) ==
    IF s.category = NULL
    THEN [category |-> PENDING, subcategory |-> NULL, vendor |-> s.vendor,
          confidence |-> 0, meta |-> "no_regex_match"]
    ELSE s

\* lines 207-383 for a text that the vendor map did not settle: the salary
\* rule (0.98), then the later rules in the source's order
semantic_rules(text_norm, s) ==
    IF "SALARY" \in Words(text_norm)
    THEN [category |-> "Income", subcategory |-> "Salary",
          vendor |-> IF s.vendor # NULL THEN s.vendor ELSE "Employer",
          confidence |-> 98, meta |-> "salary"]
    ELSE final_fallback(
             vendor_regex_rule(VENDOR_REGEX(text_norm),
                 category_regex_rule(CATEGORY_REGEX(text_norm),
                     transfer_rule(Words(text_norm), s))))

\* lines 146-194: the UPI merchant extractor, classify_upi, and a vendor-map
\* hit returned at once at 0.85 or more
first_rules(text_norm, extracted, upi, vendor_match) ==
    IF extracted.matched
    THEN extracted.result
    ELSE IF UpiAnswerReturned(upi)
    THEN upi
    ELSE IF vendor_match.matched /\ vendor_match.confidence >= 85
    THEN vendor_map_rule(vendor_match)
    ELSE semantic_rules(text_norm, vendor_map_rule(vendor_match))

\* classify_with_regex on a normalized text
classify_normalized(text_norm) ==
    first_rules(text_norm, upi_vendor(text_norm), classify_upi(text_norm),
                extract_vendor_from_map(text_norm))

\* classify_with_regex on a text, rule by rule in the source's order: empty
\* input; the UPI merchant extractor (0.90); classify_upi; a vendor-map hit,
\* returned at once at 0.85 or more and kept otherwise; the salary rule
\* (0.98); the NEFT/IMPS/RTGS transfer rule (0.70) when no category is set;
\* CATEGORY_REGEX (0.80) when no category is set; VENDOR_REGEX (0.70,
\* Uncategorized) when no vendor is set; the final PENDING fallback.  The
\* other semantic rules, the POS rule and the keyword table match none of the
\* texts used here.
classify_with_regex(description) ==
    IF description = ""
    THEN [category |-> PENDING, subcategory |-> NULL, vendor |-> NULL,
          confidence |-> 0, meta |-> "empty"]
    ELSE classify_normalized(normalize_desc(description))

(* Stage 2: heuristics/heuristics_classifier.py                            *)

\* the tokens AMOUNT_RE, [\d,]+\.\d{2}, finds, all of them below 200
Amounts == {"12.50"}

\* classify_with_heuristics, first match wins: empty, salary (0.98), bank
\* transfer (0.88), UPI/wallet (0.75), card/POS/VPA (0.70), utilities (0.85),
\* a small amount in the text (0.55), else PENDING.  The other keyword rules
\* match none of the texts used here.
classify_with_heuristics(description) ==
    IF description \in {"", "   "}
    THEN [category |-> PENDING, subcategory |-> NULL, confidence |-> 0,
          meta |-> "empty"]
    ELSE IF "SALARY" \in Words(normalize_desc(description))
    THEN [category |-> "Income", subcategory |-> "Salary", confidence |-> 98,
          meta |-> "income_exact"]
    ELSE IF description = "IMPS P2A"
    THEN [category |-> "Transfers", subcategory |-> "BankTransfer",
          confidence |-> 88, meta |-> "bank_transfer"]
    ELSE IF "UPI" \in Words(normalize_desc(description))
    THEN [category |-> "Transfers", subcategory |-> "UPI", confidence |-> 75,
          meta |-> "upi_wallet"]
    ELSE IF "VPA" \in Words(normalize_desc(description))
    THEN [category |-> "Shopping", subcategory |-> "POS", confidence |-> 70,
          meta |-> "card_pos"]
    ELSE IF "JIO" \in Words(normalize_desc(description))
    THEN [category |-> "Bills", subcategory |-> "Utilities", confidence |-> 85,
          meta |-> "utilities"]
    ELSE IF Words(normalize_desc(description)) \cap Amounts # {}
    THEN [category |-> "Shopping", subcategory |-> "Misc", confidence |-> 55,
          meta |-> "amount_heuristic"]
    ELSE [category |-> PENDING, subcategory |-> NULL, confidence |-> 0,
          meta |-> "no_heuristic_match"]

(* Stage 3: nlp/miniLM_classifier.py                                       *)

MIN_SIM_FOR_CONFIDENT == 50
LOWER_SIM_FOR_PENDING == 42
HIGH_CONF_SIM == 80

\* _apply_rule_overrides: of the descriptions used here only the NEFT/IMPS
\* rule fires.
apply_rule_overrides(text) ==
    IF text = "IMPS P2A"
    THEN [matched |-> TRUE, category |-> "Transfers",
          subcategory |-> "BankTransfer", confidence |-> 88]
    ELSE [matched |-> FALSE]

\* The answer of the sentence-embedding model for a text: the best prototype
\* label, its cosine similarity and the second-best similarity (percent).
Embedding(text) ==
    IF text = "mkt byculla"
    THEN [label |-> <<"Shopping", "LocalShops">>, best |-> 53, second |-> 51]
    ELSE IF text = "CLG"
    THEN [label |-> <<"Transfers", "Cheque">>, best |-> 85, second |-> 60]
    ELSE IF text = "UPI"
    THEN [label |-> <<"Transfers", "UPI">>, best |-> 46, second |-> 44]
    ELSE [label |-> <<"Misc", "Misc">>, best |-> 44, second |-> 43]

Clamp01(c) == Min(100, Max(0, c))

\* classify_single without its exception handler: rule overrides, then the
\* margin-aware confidence, then the heuristics fallback below 0.50.
classify_single(text) ==
    IF text \in {"", "   "}
    THEN [label |-> <<PENDING>>, confidence |-> 0, meta |-> "empty_text"]
    ELSE IF apply_rule_overrides(text).matched
    THEN LET r == apply_rule_overrides(text)
         IN [label |-> <<r.category, r.subcategory>>,
             confidence |-> r.confidence, meta |-> "rule_override"]
    ELSE LET e == Embedding(text)
             raw_conf == e.best
             margin == raw_conf - e.second
             confidence ==
                 IF raw_conf >= HIGH_CONF_SIM /\ margin > 3
                 THEN 100
                 ELSE IF raw_conf >= MIN_SIM_FOR_CONFIDENT
                 THEN Clamp01(((raw_conf - MIN_SIM_FOR_CONFIDENT) * 100)
                                  \div (HIGH_CONF_SIM - MIN_SIM_FOR_CONFIDENT)
                              + margin \div 2)
                 ELSE Max(0, ((raw_conf - LOWER_SIM_FOR_PENDING) * 100)
                                 \div (MIN_SIM_FOR_CONFIDENT - LOWER_SIM_FOR_PENDING))
             h == classify_with_heuristics(text)
         IN IF raw_conf < MIN_SIM_FOR_CONFIDENT
            THEN IF h.category # PENDING
                 THEN [label |-> IF h.subcategory # NULL
                                 THEN <<h.category, h.subcategory>>
                                 ELSE <<h.category>>,
                       confidence |-> Max(confidence, Min(90, h.confidence)),
                       meta |-> "heuristics_fallback"]
                 ELSE [label |-> <<PENDING>>, confidence |-> confidence,
                       meta |-> "bert_similarity"]
            ELSE [label |-> e.label, confidence |-> confidence,
                  meta |-> "bert_similarity"]

(* Stage 4: llm.llm_classifier.classify_batch, an external capability      *)

\* what classify_batch may answer for one description
LLMAnswers ==
    { [category |-> PENDING, subcategory |-> NULL, confidence |-> 0, meta |-> "llm"],
      [category |-> "Shopping", subcategory |-> "Online", confidence |-> 90,
       meta |-> "llm"] }

\* the tuple llm_classify_with_retry gives every item of a batch it gave up on
\* a give-up result that is not the PENDING sentinel
LLMFailed_unclear ==
    [category |-> "UNCLEAR", subcategory |-> NULL, confidence |-> 0,
     meta |-> "llm_failed"]

LLMFailed ==
    [category |-> PENDING, subcategory |-> NULL, confidence |-> 0,
     meta |-> "llm_failed"]

\* f"{category}.{subcategory}" if subcategory else category
Prediction(category, subcategory) ==
    IF subcategory # NULL THEN <<category, subcategory>> ELSE <<category>>

-----------------------------------------------------------------------------
(* PipeLine.py: normalisation                                              *)

\* the values a parser puts into a cell of a raw row
PyNone == [type |-> "NoneType", float |-> 0, str |-> ""]
PyFloat(x) == [type |-> "float", float |-> x, str |-> ""]
PyStr(x) == [type |-> "str", float |-> 0, str |-> x]

\* tx.get(key, default)
Get(tx, key, default) == IF key \in DOMAIN tx THEN tx[key] ELSE default

\* str(v) of a date cell, which holds a text or None
PyStrOf(v) == IF v.type = "NoneType" THEN "None" ELSE v.str

\* s.strip(): of the texts of the model only the blank ones change
strip(x) == IF x \in {" ", "   "} THEN "" ELSE x

\* parse_date: the date texts it resolves to a date
ParsableDates == {"12JAN23", "12-06-2023"}

parse_date(x) == x \in ParsableDates

\* float(s) after the commas and blanks are removed and a parenthesised
\* amount is given its minus sign; amounts are whole rupees
FloatText ==
    [x \in {"100.00", "500.00", "0.00", "(100)", "1,500.00", "-250.00"} |->
        CASE x = "100.00" -> 100
          [] x = "500.00" -> 500
          [] x = "0.00" -> 0
          [] x = "(100)" -> -100
          [] x = "1,500.00" -> 1500
          [] x = "-250.00" -> -250]

Abs(x) == IF x < 0 THEN -x ELSE x

\* clean_amount: 0.0 for a falsy cell and for a text float() rejects
clean_amount(v) ==
    IF v.type = "NoneType" \/ (v.type = "str" /\ v.str = "")
         \/ (v.type = "float" /\ v.float = 0)
    THEN 0
    ELSE IF v.type = "float" THEN v.float
    ELSE IF v.str \in DOMAIN FloatText THEN FloatText[v.str]
    ELSE 0

\* _has_value: v not in (None, "", "-", " ", " "); a numeric 0.0 is
\* none of these
has_value(v) ==
    ~ (v.type = "NoneType" \/ (v.type = "str" /\ v.str \in {"", "-", " "}))

debit_keys ==
    <<"debit", "withdrawal", "withdrawal_amount", "debit_amount", "dr_amount", "dr">>

credit_keys ==
    <<"credit", "deposit", "deposit_amount", "credit_amount", "cr_amount", "cr">>

\* the positions of the keys whose cell has a value
Populated(tx, keys) == { k \in DOMAIN keys : has_value(Get(tx, keys[k], PyNone)) }

\* _infer_amount_from_raw_fields: the first debit-like cell that has a value,
\* negated; else the first credit-like cell; else line 502, which evaluates
\* Decimal("0.00") although the module never imports Decimal
infer_amount_from_raw_fields(tx) ==
    LET d == Populated(tx, debit_keys)
        c == Populated(tx, credit_keys)
    IN IF d # {}
       THEN [exception |-> NULL,
             amount |-> - Abs(clean_amount(tx[debit_keys[FirstOf(d)]])),
             amount_source |-> debit_keys[FirstOf(d)]]
       ELSE IF c # {}
       THEN [exception |-> NULL,
             amount |-> Abs(clean_amount(tx[credit_keys[FirstOf(c)]])),
             amount_source |-> credit_keys[FirstOf(c)]]
       ELSE [exception |-> "NameError", amount |-> 0, amount_source |-> NULL]

\* normalize_txn: returned is <<>> for None and <<record>> for the canonical
\* record, every classification field unset; exception is the exception that
\* leaves the function, NULL when it returns
normalize_txn(tx, statement_id) ==
    LET raw_date == strip(PyStrOf(Get(tx, "date", PyStr(""))))
        description == Get(tx, "description", PyStr(""))
        amt == clean_amount(Get(tx, "amount", PyNone))
        signed == IF amt # 0
                  THEN [exception |-> NULL, amount |-> amt, amount_source |-> "amount"]
                  ELSE infer_amount_from_raw_fields(tx)
    IN IF raw_date = "" \/ Len(raw_date) < 4 \/ ~ parse_date(raw_date)
       THEN [exception |-> NULL, returned |-> <<>>, amount_source |-> NULL]
       ELSE IF description.type # "str"
       THEN [exception |-> "AttributeError", returned |-> <<>>, amount_source |-> NULL]
       ELSE IF signed.exception # NULL
       THEN [exception |-> signed.exception, returned |-> <<>>, amount_source |-> NULL]
       ELSE [exception |-> NULL,
             returned |-> << [statement_id |-> statement_id,
                              description_raw |-> strip(description.str),
                              amount |-> signed.amount,
                              vendor |-> NULL, category |-> NULL,
                              subcategory |-> NULL, confidence |-> 0,
                              classification_source |-> NULL] >>,
             amount_source |-> signed.amount_source]

\* lines 389-396 of UnifiedPipeline.py: the rows normalize_txn returns a
\* record for, in order; the first exception ends the loop
RECURSIVE NormalizeAll(_, _)
NormalizeAll(raw_txns, statement_id) ==
    IF raw_txns = <<>> THEN [exception |-> NULL, normalized |-> <<>>]
    ELSE LET n == normalize_txn(Head(raw_txns), statement_id)
             rest == NormalizeAll(Tail(raw_txns), statement_id)
         IN IF n.exception # NULL
            THEN [exception |-> n.exception, normalized |-> <<>>]
            ELSE [rest EXCEPT !.normalized = n.returned \o @]

\* a raw row as the statement parsers build it: the debit and the credit
\* column are both present, the unused one empty
Row(date, description, debit, credit) ==
    [date |-> PyStr(date), description |-> PyStr(description),
     debit |-> debit, credit |-> credit]

\* the rows a statement parser may return
RawRows ==
    { Row("12JAN23", "JIO", PyStr("100.00"), PyStr("")),
      Row("12JAN23", "IMPS P2A", PyStr("100.00"), PyStr("")),
      Row("12JAN23", "UPI", PyStr("100.00"), PyStr("")),
      Row("12JAN23", "ZXCV 12", PyStr("100.00"), PyStr("")),
      Row("12JAN23", "mkt byculla", PyStr("100.00"), PyStr("")),
      Row("12JAN23", "ZXCV 12.50", PyStr("100.00"), PyStr("")),
      Row("12JAN23", "CLG", PyStr(""), PyStr("500.00")),
      Row("12JAN23", "", PyStr("100.00"), PyStr("")),
      Row("", "JIO", PyStr("100.00"), PyStr("")),
      Row("12JAN23", "JIO", PyStr(""), PyStr("")) }

-----------------------------------------------------------------------------
(* The connection of a worker and the queries it runs                       *)

Workers == DOMAIN input

NoWrites == [utxn |-> <<>>, ulog |-> <<>>]

\* the row t as worker w's connection sees it (its own uncommitted UPDATE, or
\* the committed row)
View(w, t) ==
    IF t \in DOMAIN conn[w].utxn THEN conn[w].utxn[t] ELSE transactions[t]

\* an UPDATE ... WHERE txn_id = t on a connection whose pending writes are c
\* an UPDATE that sets the labels of the row and leaves its
\* classification_source column as it was
Update_without_source(c, t, row) ==
    [c EXCEPT !.utxn = [x \in (DOMAIN c.utxn) \cup {t} |->
                            IF x = t
                            THEN [row EXCEPT !.classification_source =
                                     IF t \in DOMAIN c.utxn
                                     THEN c.utxn[t].classification_source
                                     ELSE transactions[t].classification_source]
                            ELSE c.utxn[x]]]

Update(c, t, row) ==
    [c EXCEPT !.utxn = [x \in (DOMAIN c.utxn) \cup {t} |->
                            IF x = t THEN row ELSE c.utxn[x]]]

\* the committed transactions table after conn.commit() of the writes c
Committed(c) ==
    [t \in DOMAIN transactions |->
        IF t \in DOMAIN c.utxn THEN c.utxn[t] ELSE transactions[t]]

\* statement_exists: the newest statement of the file, 0 when there is none
statement_exists(filepath) ==
    LET S == { s \in DOMAIN statements :
                 documents[statements[s].doc_id].original_filename = filepath }
    IN IF S = {} THEN 0 ELSE CHOOSE s \in S : \A o \in S : o <= s

\* the regex and heuristics query without its category condition
select_pending_all(w, statement_id) ==
    SelectIdx(Len(transactions), LAMBDA t : View(w, t).statement_id = statement_id)

\* the query with the NULL arm of its category condition only
select_pending_null_only(w, statement_id) ==
    SelectIdx(Len(transactions),
              LAMBDA t : /\ View(w, t).statement_id = statement_id
                         /\ View(w, t).category = NULL)

\* SELECT ... WHERE statement_id = %s AND (category IS NULL OR category = 'PENDING')
select_pending(w, statement_id) ==
    SelectIdx(Len(transactions),
              LAMBDA t : /\ View(w, t).statement_id = statement_id
                         /\ View(w, t).category \in {NULL, PENDING})

MiniLMPredicate(row) ==
    \/ row.category = NULL
    \/ row.category = PENDING
    \/ /\ row.classification_source \in {"regex", "heuristic"}
       /\ row.confidence < MINILM_LOW_CONF_THRESHOLD

\* a Stage 3 query that returns every selected row twice
fetch_transactions_for_minilm_twice(w, statement_id) ==
    LET sel == SelectIdx(Len(transactions),
                         LAMBDA t : /\ View(w, t).statement_id = statement_id
                                    /\ MiniLMPredicate(View(w, t)))
    IN sel \o sel

fetch_transactions_for_minilm(w, statement_id) ==
    SelectIdx(Len(transactions),
              LAMBDA t : /\ View(w, t).statement_id = statement_id
                         /\ MiniLMPredicate(View(w, t)))

\* a Stage 4 query that forgets to ask which stage gave the low confidence
LLMPredicate_any_source(row) ==
    \/ row.category = PENDING
    \/ row.confidence < LLM_FALLBACK_CONF_THRESHOLD

\* a Stage 4 query that takes only the low-confidence MiniLM labels
LLMPredicate_low_bert_only(row) ==
    /\ row.classification_source = "bert"
    /\ row.confidence < LLM_FALLBACK_CONF_THRESHOLD

LLMPredicate(row) ==
    \/ row.category = PENDING
    \/ /\ row.classification_source = "bert"
       /\ row.confidence < LLM_FALLBACK_CONF_THRESHOLD

\* a Stage 4 query that returns every transaction of the statement
fetch_transactions_for_llm_all(w, statement_id) ==
    SelectIdx(Len(transactions), LAMBDA t : View(w, t).statement_id = statement_id)

fetch_transactions_for_llm(w, statement_id) ==
    SelectIdx(Len(transactions),
              LAMBDA t : /\ View(w, t).statement_id = statement_id
                         /\ LLMPredicate(View(w, t)))

-----------------------------------------------------------------------------
(* worker_process_file                                                      *)

NewMetrics ==
    [inserted |-> 0, regex_attempted |-> 0, regex_classified |-> 0,
     heur_attempted |-> 0, heur_classified |-> 0, mini_attempted |-> 0,
     mini_classified |-> 0, mini_pending |-> 0, llm_attempted |-> 0,
     llm_classified |-> 0]

ErrorMetrics == [error |-> "exception", trace |-> "traceback"]

\* the locals of a worker that main has just submitted for filepath
NewWorker(filepath, prev_ok) ==
    [pc |-> "start", filepath |-> filepath, rerun |-> FALSE, doc_id |-> 0,
     statement_id |-> 0, pending |-> <<>>, i |-> 1, classification_log |-> <<>>,
     llm_results |-> <<>>, answered |-> <<>>, batch_start |-> 0, attempt |-> 0,
     calls |-> 0,
     metrics |-> NewMetrics, log0 |-> Len(classification_log),
     txn0 |-> transactions, prev_ok |-> prev_ok]

\* the worker has returned: its locals are gone, its result is metrics
Returned(w, pc, metrics) ==
    [NewWorker(wk[w].filepath, wk[w].prev_ok) EXCEPT
        !.pc = pc, !.rerun = wk[w].rerun, !.statement_id = wk[w].statement_id,
        !.metrics = metrics, !.log0 = wk[w].log0, !.txn0 = wk[w].txn0]

\* what one pass did, in order.  kind is
\*   select:   the stage's query returned the transaction
\*   verdict:  the stage wrote its verdict to the row and recorded a log entry
\*   skipped:  the stage answered PENDING and wrote nothing (heuristics)
\*   failed:   the stage's write was rolled back (MiniLM)
\*   unlogged: the stage's write was committed, its log insert failed (MiniLM)
Event(kind, stage, t, r) ==
    [kind |-> kind, stage |-> stage, txn |-> t, category |-> r.category,
     confidence |-> r.confidence, meta |-> r.meta]

SelectEvents(stage, ids) ==
    [k \in 1..Len(ids) |->
        Event("select", stage, ids[k],
              [category |-> NULL, confidence |-> 0, meta |-> ""])]

LogEntry(t, stage, r) ==
    [txn_id |-> t, stage |-> stage,
     prediction |-> Prediction(r.category, r.subcategory),
     confidence |-> r.confidence, meta |-> r.meta]

Bump(metrics, key, by) == [metrics EXCEPT ![key] = @ + by]

\* lines 276-294: connect, look the statement up; when it exists, select the
\* pending transactions for the regex pass of the re-run
StatementCheck(w) ==
    /\ wk[w].pc = "start"
    /\ LET sid == statement_exists(wk[w].filepath)
           sel == select_pending(w, sid)
       IN IF sid # 0
          THEN /\ wk' = [wk EXCEPT ![w] =
                           [@ EXCEPT !.pc = "regex", !.rerun = TRUE,
                                     !.statement_id = sid, !.pending = sel,
                                     !.i = 1,
                                     !.metrics = Bump(@, "regex_attempted", Len(sel))]]
               /\ trace' = [trace EXCEPT ![w] = @ \o SelectEvents("regex", sel)]
          ELSE /\ wk' = [wk EXCEPT ![w] = [@ EXCEPT !.pc = "parse"]]
               /\ UNCHANGED trace
    /\ UNCHANGED <<config, tables, conn, aggregated, mainpc, runs, faults>>

\* an early return taken only for a recognised bank without rows
NothingParsed_bank_only(parsed) ==
    parsed.bank_name # NULL /\ parsed.raw_txns = <<>>

\* line 379: if not bank_name or not raw_txns
NothingParsed(parsed) ==
    parsed.bank_name = NULL \/ parsed.raw_txns = <<>>

\* lines 373-382: parse; an unrecognised or empty statement ends the pass
Parse(w) ==
    /\ wk[w].pc = "parse"
    /\ LET parsed == input[wk[w].filepath]
       IN wk' = [wk EXCEPT ![w] =
                    IF NothingParsed(parsed)
                    THEN Returned(w, "done", wk[w].metrics)
                    ELSE [@ EXCEPT !.pc = "docstmt"]]
    /\ UNCHANGED <<config, tables, conn, trace, aggregated, mainpc, runs, faults>>

\* lines 384-387 and PipeLine.create_document_and_statement
CreateDocumentAndStatement(w) ==
    /\ wk[w].pc = "docstmt"
    /\ documents' = Append(documents,
                           [original_filename |-> wk[w].filepath, status |-> "uploaded"])
    /\ statements' = Append(statements,
                            [doc_id |-> Len(documents) + 1, status |-> "parsed"])
    /\ wk' = [wk EXCEPT ![w] = [@ EXCEPT !.pc = "insert",
                                         !.doc_id = Len(documents) + 1,
                                         !.statement_id = Len(statements) + 1]]
    /\ UNCHANGED <<config, transactions, classification_log, conn, trace,
                   aggregated, mainpc, runs, faults>>

\* lines 389-409: normalise the rows, insert them (committed at once) and take
\* every inserted transaction into the regex step.  An exception of
\* normalize_txn leaves the loop and the try block (lines 535-537): the file
\* is reported as an error, its document and statement stay.
NormalizeAndInsert(w) ==
    /\ wk[w].pc = "insert"
    /\ LET n == NormalizeAll(input[wk[w].filepath].raw_txns, wk[w].statement_id)
           normalized == n.normalized
           txn_ids == [k \in 1..Len(normalized) |-> Len(transactions) + k]
       IN IF n.exception # NULL
          THEN /\ wk' = [wk EXCEPT ![w] = Returned(w, "failed", ErrorMetrics)]
               /\ trace' = [trace EXCEPT ![w] = <<>>]
               /\ UNCHANGED transactions
          ELSE /\ transactions' = transactions \o normalized
               /\ wk' = [wk EXCEPT ![w] =
                           [@ EXCEPT !.pc = "regex", !.pending = txn_ids, !.i = 1,
                                     !.metrics = Bump(Bump(@, "inserted", Len(txn_ids)),
                                                      "regex_attempted", Len(txn_ids))]]
               /\ trace' = [trace EXCEPT ![w] = @ \o SelectEvents("regex", txn_ids)]
    /\ UNCHANGED <<config, documents, statements, classification_log, conn,
                   aggregated, mainpc, runs, faults>>

\* one write of a stage: UPDATE the row and record the verdict.  The re-run
\* branch logs through insert_classification_log, which commits the UPDATE and
\* the entry together; the first-time branch leaves the UPDATE uncommitted and
\* collects the entry in classification_log for the bulk insert.
StageWrite(w, t, row, entry) ==
    IF wk[w].rerun
    THEN /\ transactions' = Committed(Update(conn[w], t, row))
         /\ classification_log' = classification_log \o conn[w].ulog \o <<entry>>
         /\ conn' = [conn EXCEPT ![w] = NoWrites]
    ELSE /\ conn' = [conn EXCEPT ![w] = Update(@, t, row)]
         /\ UNCHANGED <<transactions, classification_log>>

Collected(w, entry) ==
    IF wk[w].rerun THEN wk[w].classification_log
    ELSE Append(wk[w].classification_log, entry)

\* conn.commit()
\* a commit that persists nothing and leaves the writes pending
Commit_deferred(w) ==
    UNCHANGED <<transactions, classification_log, conn>>

Commit(w) ==
    /\ transactions' = Committed(conn[w])
    /\ classification_log' = classification_log \o conn[w].ulog
    /\ conn' = [conn EXCEPT ![w] = NoWrites]

\* lines 295-307 and 412-433: one iteration of the regex loop
RegexStep(w) ==
    /\ wk[w].pc = "regex"
    /\ wk[w].i <= Len(wk[w].pending)
    /\ LET t == wk[w].pending[wk[w].i]
           r == classify_with_regex(View(w, t).description_raw)
           row == [View(w, t) EXCEPT !.vendor = r.vendor, !.category = r.category,
                                     !.subcategory = r.subcategory,
                                     !.confidence = r.confidence,
                                     !.classification_source = "regex"]
           entry == LogEntry(t, "regex", r)
       IN /\ StageWrite(w, t, row, entry)
          /\ wk' = [wk EXCEPT ![w] =
                      [@ EXCEPT !.i = @ + 1,
                                !.classification_log = Collected(w, entry),
                                !.metrics = Bump(@, "regex_classified",
                                                 IF r.category # PENDING THEN 1 ELSE 0)]]
          /\ trace' = [trace EXCEPT ![w] = Append(@, Event("verdict", "regex", t, r))]
    /\ UNCHANGED <<config, documents, statements, aggregated, mainpc, runs, faults>>

\* lines 308-320 and 434-449: commit the regex pass and select the
\* transactions still pending for the heuristics
RegexCommit(w) ==
    /\ wk[w].pc = "regex"
    /\ wk[w].i > Len(wk[w].pending)
    /\ Commit(w)
    /\ LET sel == select_pending(w, wk[w].statement_id)
       IN /\ wk' = [wk EXCEPT ![w] =
                      [@ EXCEPT !.pc = "heur", !.pending = sel, !.i = 1,
                                !.metrics = Bump(@, "heur_attempted", Len(sel))]]
          /\ trace' = [trace EXCEPT ![w] = @ \o SelectEvents("heuristic", sel)]
    /\ UNCHANGED <<config, documents, statements, aggregated, mainpc, runs, faults>>

\* lines 321-333 and 451-468: one iteration of the heuristics loop; a PENDING
\* verdict writes nothing and logs nothing
HeuristicStep(w) ==
    /\ wk[w].pc = "heur"
    /\ wk[w].i <= Len(wk[w].pending)
    /\ LET t == wk[w].pending[wk[w].i]
           r == classify_with_heuristics(View(w, t).description_raw)
           row == [View(w, t) EXCEPT !.category = r.category,
                                     !.subcategory = r.subcategory,
                                     !.confidence = r.confidence,
                                     !.classification_source = "heuristic"]
           entry == LogEntry(t, "heuristic", r)
       IN /\ IF r.category # PENDING
             THEN /\ StageWrite(w, t, row, entry)
                  /\ wk' = [wk EXCEPT ![w] =
                              [@ EXCEPT !.i = @ + 1,
                                        !.classification_log = Collected(w, entry),
                                        !.metrics = Bump(@, "heur_classified", 1)]]
             ELSE /\ wk' = [wk EXCEPT ![w] = [@ EXCEPT !.i = @ + 1]]
                  /\ UNCHANGED <<transactions, classification_log, conn>>
          /\ trace' = [trace EXCEPT ![w] =
                         Append(@, Event(IF r.category # PENDING THEN "verdict" ELSE "skipped",
                                         "heuristic", t, r))]
    /\ UNCHANGED <<config, documents, statements, aggregated, mainpc, runs, faults>>

\* lines 334-338 and 469-477: commit the heuristics pass and select for MiniLM
HeuristicCommit(w) ==
    /\ wk[w].pc = "heur"
    /\ wk[w].i > Len(wk[w].pending)
    /\ Commit(w)
    /\ LET sel == fetch_transactions_for_minilm(w, wk[w].statement_id)
       IN /\ wk' = [wk EXCEPT ![w] =
                      [@ EXCEPT !.pc = "mini", !.pending = sel, !.i = 1,
                                !.metrics = Bump(@, "mini_attempted", Len(sel))]]
          /\ trace' = [trace EXCEPT ![w] = @ \o SelectEvents("bert", sel)]
    /\ UNCHANGED <<config, documents, statements, aggregated, mainpc, runs, faults>>

\* apply_minilm_to_txn_worker (lines 208-249) on the next selected
\* transaction, and the caller's counters (lines 339-344, 479-484).
\*   ok:               the verdict is written and logged in one commit
\*   classifier_error: classify_single caught an internal error and answered
\*                     PENDING with confidence 0.0
\*   storage_error:    the UPDATE (or, for a non-empty description, the log
\*                     insert) raised; the handler rolls back, answers PENDING
\*   log_error:        empty description only: the UPDATE was committed, then
\*                     the log insert raised; the handler answers PENDING
MiniLMStep(w, outcome) ==
    /\ wk[w].pc = "mini"
    /\ wk[w].i <= Len(wk[w].pending)
    /\ outcome # "ok" => faults > 0
    /\ faults' = IF outcome = "ok" THEN faults ELSE faults - 1
    /\ LET t == wk[w].pending[wk[w].i]
           desc == View(w, t).description_raw
           c == IF outcome = "classifier_error"
                THEN [label |-> <<PENDING>>, confidence |-> 0, meta |-> "exception"]
                ELSE classify_single(desc)
           r == IF desc = ""
                THEN [category |-> PENDING, subcategory |-> NULL, confidence |-> 0,
                      meta |-> "empty"]
                ELSE [category |-> c.label[1],
                      subcategory |-> IF Len(c.label) > 1 THEN c.label[2] ELSE NULL,
                      confidence |-> c.confidence, meta |-> c.meta]
           row == IF desc = ""
                  THEN [View(w, t) EXCEPT !.classification_source = "bert",
                                          !.confidence = 0]
                  ELSE [View(w, t) EXCEPT !.category = r.category,
                                          !.subcategory = r.subcategory,
                                          !.confidence = r.confidence,
                                          !.classification_source = "bert"]
           entry == LogEntry(t, "bert", r)
           label == IF outcome \in {"storage_error", "log_error"}
                    THEN PENDING ELSE r.category
       IN /\ \/ /\ outcome \in {"ok", "classifier_error"}
                /\ outcome = "classifier_error" => desc # ""
                /\ transactions' = Committed(Update(conn[w], t, row))
                /\ classification_log' = classification_log \o conn[w].ulog \o <<entry>>
                /\ trace' = [trace EXCEPT ![w] = Append(@, Event("verdict", "bert", t, r))]
             \/ /\ outcome = "storage_error"
                /\ UNCHANGED <<transactions, classification_log>>
                /\ trace' = [trace EXCEPT ![w] = Append(@, Event("failed", "bert", t,
                                                    [r EXCEPT !.category = label]))]
             \/ /\ outcome = "log_error"
                /\ desc = ""
                /\ transactions' = Committed(Update(conn[w], t, row))
                /\ UNCHANGED classification_log
                /\ trace' = [trace EXCEPT ![w] = Append(@, Event("unlogged", "bert", t,
                                                    [r EXCEPT !.category = label]))]
          /\ conn' = [conn EXCEPT ![w] = NoWrites]
          /\ wk' = [wk EXCEPT ![w] =
                      [@ EXCEPT !.i = @ + 1,
                                !.metrics = IF label = PENDING
                                            THEN Bump(@, "mini_pending", 1)
                                            ELSE Bump(@, "mini_classified", 1)]]
    /\ UNCHANGED <<config, documents, statements, aggregated, mainpc, runs>>

MiniLMOutcomes == {"ok", "classifier_error", "storage_error", "log_error"}

\* the positions of pending that form the batch starting after batch_start
BatchOf(w) ==
    (wk[w].batch_start + 1) ..
        Min(wk[w].batch_start + LLM_BATCH_SIZE, Len(wk[w].pending))

\* lines 345-349 and 488-493: select for the LLM; with nothing selected the
\* LLM step is skipped
LLMSelect(w) ==
    /\ wk[w].pc = "mini"
    /\ wk[w].i > Len(wk[w].pending)
    /\ LET sel == fetch_transactions_for_llm(w, wk[w].statement_id)
       IN /\ wk' = [wk EXCEPT ![w] =
                      IF sel = <<>> /\ wk[w].rerun
                      THEN Returned(w, "done", wk[w].metrics)
                      ELSE [@ EXCEPT !.pc = IF sel # <<>> THEN "llm_batch" ELSE "bulk",
                                     !.pending = sel, !.i = 1, !.llm_results = <<>>,
                                     !.answered = <<>>,
                                     !.batch_start = 0, !.attempt = 0, !.calls = 0,
                                     !.metrics = Bump(@, "llm_attempted", Len(sel))]]
          /\ trace' = [trace EXCEPT ![w] = @ \o SelectEvents("llm", sel)]
    /\ UNCHANGED <<config, tables, conn, aggregated, mainpc, runs, faults>>

\* descriptions[i:i+LLM_BATCH_SIZE], lines 350-353 and 493-496: the texts of
\* the current batch, in the order of the selection
BatchDescriptions(w) ==
    [k \in 1..Cardinality(BatchOf(w)) |->
        View(w, wk[w].pending[wk[w].batch_start + k]).description_raw]

\* a loop that puts the results of each batch in front of the earlier ones
BatchReturned_prepend(w, res) ==
    LET last == wk[w].batch_start + LLM_BATCH_SIZE >= Len(wk[w].pending)
    IN [wk[w] EXCEPT !.llm_results = res \o @,
                     !.answered = BatchDescriptions(w) \o @,
                     !.batch_start = @ + LLM_BATCH_SIZE,
                     !.attempt = 0,
                     !.pc = IF last THEN "llm_write" ELSE "llm_batch",
                     !.i = 1]

\* after llm_classify_with_retry returned res for the current batch: the next
\* batch, or the write loop after the last one (lines 352-356, 495-498).
\* answered records, result by result, the text each result was asked for.
BatchReturned(w, res) ==
    LET last == wk[w].batch_start + LLM_BATCH_SIZE >= Len(wk[w].pending)
    IN [wk[w] EXCEPT !.llm_results = @ \o res,
                     !.answered = @ \o BatchDescriptions(w),
                     !.batch_start = @ + LLM_BATCH_SIZE,
                     !.attempt = 0,
                     !.pc = IF last THEN "llm_write" ELSE "llm_batch",
                     !.i = 1]

\* the classify_batch invocations made so far for the current batch
CallsSoFar(w) == IF wk[w].attempt = 0 THEN 0 ELSE wk[w].calls

\* a retry loop that runs once more than the ceiling allows
RetryAllowed_once_more(attempt) == attempt <= LLM_RETRY_MAX

\* line 83: while attempt < LLM_RETRY_MAX
RetryAllowed(attempt) == attempt < LLM_RETRY_MAX

\* llm_classify_with_retry, lines 83-92: one attempt.  classify_batch answers
\* one result per description, in order, or raises.
LLMAttempt(w) ==
    /\ wk[w].pc = "llm_batch"
    /\ RetryAllowed(wk[w].attempt)
    /\ \/ \E answers \in [BatchOf(w) -> LLMAnswers] :
            LET results == [k \in 1..Cardinality(BatchOf(w)) |->
                               answers[wk[w].batch_start + k]]
            IN wk' = [wk EXCEPT ![w] =
                        [BatchReturned(w, results) EXCEPT !.calls = CallsSoFar(w) + 1]]
       \/ wk' = [wk EXCEPT ![w] =
                   [@ EXCEPT !.attempt = @ + 1, !.calls = CallsSoFar(w) + 1]]
    /\ UNCHANGED <<config, tables, conn, trace, aggregated, mainpc, runs, faults>>

\* llm_classify_with_retry, lines 93-94: the attempts are used up
LLMGiveUp(w) ==
    /\ wk[w].pc = "llm_batch"
    /\ ~RetryAllowed(wk[w].attempt)
    /\ wk' = [wk EXCEPT ![w] =
                [BatchReturned(w, [k \in 1..Cardinality(BatchOf(w)) |-> LLMFailed])
                    EXCEPT !.calls = CallsSoFar(w)]]
    /\ UNCHANGED <<config, tables, conn, trace, aggregated, mainpc, runs, faults>>

\* lines 356-367 and 498-513: write one LLM result (zip of the selected
\* transactions with the results)
LLMWrite(w) ==
    /\ wk[w].pc = "llm_write"
    /\ wk[w].i <= Min(Len(wk[w].pending), Len(wk[w].llm_results))
    /\ LET t == wk[w].pending[wk[w].i]
           r == wk[w].llm_results[wk[w].i]
           row == [View(w, t) EXCEPT !.category = r.category,
                                     !.subcategory = r.subcategory,
                                     !.confidence = r.confidence,
                                     !.classification_source = "llm"]
           entry == LogEntry(t, "llm", r)
       IN /\ StageWrite(w, t, row, entry)
          /\ wk' = [wk EXCEPT ![w] =
                      [@ EXCEPT !.i = @ + 1,
                                !.classification_log = Collected(w, entry),
                                !.metrics = Bump(@, "llm_classified",
                                     IF r.category \notin {NULL, PENDING, "UNCLEAR"}
                                     THEN 1 ELSE 0)]]
          /\ trace' = [trace EXCEPT ![w] = Append(@, Event("verdict", "llm", t, r))]
    /\ UNCHANGED <<config, documents, statements, aggregated, mainpc, runs, faults>>

\* lines 368-371 and 514-515: commit the LLM writes; the re-run returns here
LLMCommit(w) ==
    /\ wk[w].pc = "llm_write"
    /\ wk[w].i > Min(Len(wk[w].pending), Len(wk[w].llm_results))
    /\ Commit(w)
    /\ wk' = [wk EXCEPT ![w] = IF wk[w].rerun
                               THEN Returned(w, "done", wk[w].metrics)
                               ELSE [@ EXCEPT !.pc = "bulk"]]
    /\ UNCHANGED <<config, documents, statements, trace, aggregated, mainpc, runs, faults>>

\* bulk_insert_classification_log, lines 112-138: nothing to do for an empty
\* list; else one multi-row INSERT and a commit, or, when that is rejected, a
\* rollback and the per-row fallback
BulkInsert(w, ok) ==
    /\ wk[w].pc = "bulk"
    /\ ~ok => faults > 0 /\ wk[w].classification_log # <<>>
    /\ faults' = IF ok THEN faults ELSE faults - 1
    /\ IF ok
       THEN /\ transactions' = Committed(conn[w])
            /\ classification_log' =
                   classification_log \o conn[w].ulog \o wk[w].classification_log
            /\ wk' = [wk EXCEPT ![w] = [@ EXCEPT !.pc = "docstatus"]]
       ELSE /\ UNCHANGED <<transactions, classification_log>>
            /\ wk' = [wk EXCEPT ![w] = [@ EXCEPT !.pc = "bulk_fallback", !.i = 1]]
    /\ conn' = [conn EXCEPT ![w] = NoWrites]
    /\ UNCHANGED <<config, documents, statements, trace, aggregated, mainpc, runs>>

\* a fallback that gives up at the first entry it cannot write
BulkFallback_abort(w, ok) ==
    /\ wk[w].pc = "bulk_fallback"
    /\ ~ok => faults > 0
    /\ faults' = IF ok THEN faults ELSE faults - 1
    /\ classification_log' =
          IF ok THEN Append(classification_log, wk[w].classification_log[wk[w].i])
          ELSE classification_log
    /\ wk' = [wk EXCEPT ![w] =
                [@ EXCEPT !.i = @ + 1,
                          !.pc = IF ~ok \/ wk[w].i >= Len(wk[w].classification_log)
                                 THEN "docstatus" ELSE "bulk_fallback"]]
    /\ UNCHANGED <<config, documents, statements, transactions, conn, trace,
                   aggregated, mainpc, runs>>

\* lines 141-157: the fallback writes one collected entry through
\* insert_classification_log; a failing entry is logged and skipped
BulkFallback(w, ok) ==
    /\ wk[w].pc = "bulk_fallback"
    /\ ~ok => faults > 0
    /\ faults' = IF ok THEN faults ELSE faults - 1
    /\ classification_log' =
          IF ok THEN Append(classification_log, wk[w].classification_log[wk[w].i])
          ELSE classification_log
    /\ wk' = [wk EXCEPT ![w] =
                [@ EXCEPT !.i = @ + 1,
                          !.pc = IF wk[w].i >= Len(wk[w].classification_log)
                                 THEN "docstatus" ELSE "bulk_fallback"]]
    /\ UNCHANGED <<config, documents, statements, transactions, conn, trace,
                   aggregated, mainpc, runs>>

\* lines 526-533 and PipeLine.update_document_status; a failure is logged
UpdateDocumentStatus(w, ok) ==
    /\ wk[w].pc = "docstatus"
    /\ ~ok => faults > 0
    /\ faults' = IF ok THEN faults ELSE faults - 1
    /\ documents' = IF ok THEN [documents EXCEPT ![wk[w].doc_id].status = "parsed"]
                    ELSE documents
    /\ wk' = [wk EXCEPT ![w] = Returned(w, "done", wk[w].metrics)]
    /\ UNCHANGED <<config, statements, transactions, classification_log, conn,
                   trace, aggregated, mainpc, runs>>

Running == {"start", "parse", "docstmt", "insert", "regex", "heur", "mini",
            "llm_batch", "llm_write", "bulk", "bulk_fallback", "docstatus"}

\* lines 518-530: the bulk insert and the document status update each sit in
\* a try block of their own, so nothing they raise reaches line 535
Guarded == {"bulk", "bulk_fallback", "docstatus"}

\* lines 535-543: an exception anywhere in the try block is caught; the worker
\* returns the error and its trace, and closing the connection discards what
\* it had not committed.  Between the batches nothing raises:
\* llm_classify_with_retry catches every exception of classify_batch.
Raise(w) ==
    /\ wk[w].pc \in Running \ ({"llm_batch"} \cup Guarded)
    /\ faults > 0
    /\ faults' = faults - 1
    /\ wk' = [wk EXCEPT ![w] = Returned(w, "failed", ErrorMetrics)]
    /\ conn' = [conn EXCEPT ![w] = NoWrites]
    /\ trace' = [trace EXCEPT ![w] = <<>>]
    /\ UNCHANGED <<config, tables, aggregated, mainpc, runs>>

-----------------------------------------------------------------------------
(* main                                                                     *)

NewAggregated ==
    [total_inserted |-> 0, total_regex_attempted |-> 0,
     total_regex_classified |-> 0, total_heur_attempted |-> 0,
     total_heur_classified |-> 0, total_mini_attempted |-> 0,
     total_mini_classified |-> 0, total_llm_attempted |-> 0,
     total_llm_classified |-> 0, files_processed |-> 0, errors |-> 0,
     per_file |-> <<>>]

\* lines 547-576: a run of main submits one worker per input file
MainStart ==
    /\ mainpc = "idle"
    /\ runs > 0
    /\ runs' = runs - 1
    /\ mainpc' = "collect"
    /\ aggregated' = NewAggregated
    /\ wk' = [w \in Workers |-> NewWorker(w, wk[w].pc = "done")]
    /\ trace' = [w \in Workers |-> <<>>]
    /\ conn' = [w \in Workers |-> NoWrites]
    /\ UNCHANGED <<config, tables, faults>>

\* an aggregation that does not count the failed files
Aggregate_errors_uncounted(a, metrics) ==
    IF "error" \in DOMAIN metrics
    THEN a
    ELSE [a EXCEPT
            !.total_inserted = @ + metrics.inserted,
            !.total_regex_attempted = @ + metrics.regex_attempted,
            !.total_regex_classified = @ + metrics.regex_classified,
            !.total_heur_attempted = @ + metrics.heur_attempted,
            !.total_heur_classified = @ + metrics.heur_classified,
            !.total_mini_attempted = @ + metrics.mini_attempted,
            !.total_mini_classified = @ + metrics.mini_classified,
            !.total_llm_attempted = @ + metrics.llm_attempted,
            !.total_llm_classified = @ + metrics.llm_classified]

\* lines 580-594: an error result raises the error count, any other result is
\* added to the totals
Aggregate(a, metrics) ==
    IF "error" \in DOMAIN metrics
    THEN [a EXCEPT !.errors = @ + 1]
    ELSE [a EXCEPT
            !.total_inserted = @ + metrics.inserted,
            !.total_regex_attempted = @ + metrics.regex_attempted,
            !.total_regex_classified = @ + metrics.regex_classified,
            !.total_heur_attempted = @ + metrics.heur_attempted,
            !.total_heur_classified = @ + metrics.heur_classified,
            !.total_mini_attempted = @ + metrics.mini_attempted,
            !.total_mini_classified = @ + metrics.mini_classified,
            !.total_llm_attempted = @ + metrics.llm_attempted,
            !.total_llm_classified = @ + metrics.llm_classified]

\* lines 577-594: take the result of a finished worker, in completion order
MainCollect(w) ==
    /\ mainpc = "collect"
    /\ wk[w].pc \in {"done", "failed"}
    /\ wk[w].filepath \notin DOMAIN aggregated.per_file
    /\ LET metrics == wk[w].metrics
           a == [aggregated EXCEPT
                   !.files_processed = @ + 1,
                   !.per_file = [f \in (DOMAIN @) \cup {wk[w].filepath} |->
                                    IF f = wk[w].filepath THEN metrics ELSE @[f]]]
       IN aggregated' = Aggregate(a, metrics)
    /\ UNCHANGED <<config, tables, conn, wk, trace, mainpc, runs, faults>>

\* lines 606-627: every future has been taken; main returns the totals
MainReturn ==
    /\ mainpc = "collect"
    /\ \A w \in Workers : wk[w].filepath \in DOMAIN aggregated.per_file
    /\ mainpc' = "idle"
    /\ UNCHANGED <<config, tables, conn, wk, trace, aggregated, runs, faults>>

-----------------------------------------------------------------------------
(* Specifications                                                           *)

RECURSIVE SeqsUpTo(_, _)
SeqsUpTo(S, n) ==
    IF n = 0 THEN {<<>>}
    ELSE SeqsUpTo(S, n - 1)
           \cup { Append(s, x) : s \in { q \in SeqsUpTo(S, n - 1) : Len(q) = n - 1 },
                                 x \in S }

\* what parse_statement may return: no bank recognised, or a bank and rows
ParseResults(rows, n) ==
    { [bank_name |-> NULL, raw_txns |-> <<>>] }
        \cup { [bank_name |-> "SBI", raw_txns |-> s] : s \in SeqsUpTo(rows, n) }

\* the rows of the multi-file specification: resolved by the regex stage, left
\* to the LLM, and dropped by the normaliser
MainRows == { r \in RawRows : r.description.str \in {"JIO", "ZXCV 12"} }

MINILM_LOW_CONF_DEFAULT == 50
LLM_FALLBACK_CONF_DEFAULT == 25
MinilmSettings == {MINILM_LOW_CONF_DEFAULT, 80}
LlmSettings == {LLM_FALLBACK_CONF_DEFAULT, 90}

\* the pipeline specifications apply no function on its own
NoCall == [pc |-> "none"]

InitState ==
    /\ documents = <<>>
    /\ statements = <<>>
    /\ transactions = <<>>
    /\ classification_log = <<>>
    /\ conn = [w \in Workers |-> NoWrites]
    /\ wk = [w \in Workers |-> [NewWorker(w, FALSE) EXCEPT !.pc = "idle"]]
    /\ trace = [w \in Workers |-> <<>>]
    /\ aggregated = NewAggregated
    /\ mainpc = "idle"
    /\ call = NoCall
    /\ _MODEL = 0
    /\ _LABELS = 0
    /\ _EMBS = 0

\* one input file, every setting of the two thresholds
Init ==
    /\ input \in [{1} -> ParseResults(RawRows, MaxRows)]
    /\ MINILM_LOW_CONF_THRESHOLD \in MinilmSettings
    /\ LLM_FALLBACK_CONF_THRESHOLD \in LlmSettings
    /\ LLM_RETRY_MAX = MaxRetry
    /\ LLM_BATCH_SIZE = 1
    /\ faults = MaxFaults
    /\ runs = MaxRuns
    /\ InitState

\* one input file, the default thresholds, every retry ceiling and batch size
InitLLM ==
    /\ input \in [{1} -> ParseResults(RawRows, MaxRows)]
    /\ MINILM_LOW_CONF_THRESHOLD = MINILM_LOW_CONF_DEFAULT
    /\ LLM_FALLBACK_CONF_THRESHOLD = LLM_FALLBACK_CONF_DEFAULT
    /\ LLM_RETRY_MAX \in 1..MaxRetry
    /\ LLM_BATCH_SIZE \in 1..MaxBatch
    /\ faults = MaxFaults
    /\ runs = MaxRuns
    /\ InitState

\* one run of main over several input files of at most one row each, with the
\* default thresholds; every worker may fail
InitMain ==
    /\ input \in [1..MaxFiles -> ParseResults(MainRows, 1)]
    /\ MINILM_LOW_CONF_THRESHOLD = MINILM_LOW_CONF_DEFAULT
    /\ LLM_FALLBACK_CONF_THRESHOLD = LLM_FALLBACK_CONF_DEFAULT
    /\ LLM_RETRY_MAX = 1
    /\ LLM_BATCH_SIZE = 1
    /\ faults = MaxFiles
    /\ runs = 1
    /\ InitState

Next ==
    \/ MainStart
    \/ MainReturn
    \/ \E w \in Workers : MainCollect(w)
    \/ \E w \in Workers : StatementCheck(w)
    \/ \E w \in Workers : Parse(w)
    \/ \E w \in Workers : CreateDocumentAndStatement(w)
    \/ \E w \in Workers : NormalizeAndInsert(w)
    \/ \E w \in Workers : RegexStep(w)
    \/ \E w \in Workers : RegexCommit(w)
    \/ \E w \in Workers : HeuristicStep(w)
    \/ \E w \in Workers : HeuristicCommit(w)
    \/ \E w \in Workers, outcome \in MiniLMOutcomes : MiniLMStep(w, outcome)
    \/ \E w \in Workers : LLMSelect(w)
    \/ \E w \in Workers : LLMAttempt(w)
    \/ \E w \in Workers : LLMGiveUp(w)
    \/ \E w \in Workers : LLMWrite(w)
    \/ \E w \in Workers : LLMCommit(w)
    \/ \E w \in Workers, ok \in BOOLEAN : BulkInsert(w, ok)
    \/ \E w \in Workers, ok \in BOOLEAN : BulkFallback(w, ok)
    \/ \E w \in Workers, ok \in BOOLEAN : UpdateDocumentStatus(w, ok)
    \/ \E w \in Workers : Raise(w)

Spec == Init /\ [][Next]_vars

SpecLLM == InitLLM /\ [][Next]_vars

SpecMain == InitMain /\ [][Next]_vars

-----------------------------------------------------------------------------
(* Two calls of worker_process_file on the same original filename           *)

\* both workers are handed file 1 (the same user and basename, as two
\* invocations of main over the same input directory submit it) before any
\* statement exists for it; one storage fault or exception may happen
InitRace ==
    /\ input \in { [f \in 1..2 |-> p] : p \in ParseResults(RawRows, 1) }
    /\ MINILM_LOW_CONF_THRESHOLD = MINILM_LOW_CONF_DEFAULT
    /\ LLM_FALLBACK_CONF_THRESHOLD = LLM_FALLBACK_CONF_DEFAULT
    /\ LLM_RETRY_MAX = 1
    /\ LLM_BATCH_SIZE = 1
    /\ faults = 1
    /\ runs = 0
    /\ documents = <<>>
    /\ statements = <<>>
    /\ transactions = <<>>
    /\ classification_log = <<>>
    /\ conn = [w \in Workers |-> NoWrites]
    /\ wk = [w \in Workers |-> NewWorker(1, FALSE)]
    /\ trace = [w \in Workers |-> <<>>]
    /\ aggregated = NewAggregated
    /\ mainpc = "idle"
    /\ call = NoCall
    /\ _MODEL = 0
    /\ _LABELS = 0
    /\ _EMBS = 0

NextRace ==
    \/ \E w \in Workers : StatementCheck(w)
    \/ \E w \in Workers : Parse(w)
    \/ \E w \in Workers : CreateDocumentAndStatement(w)
    \/ \E w \in Workers : NormalizeAndInsert(w)
    \/ \E w \in Workers : RegexStep(w)
    \/ \E w \in Workers : RegexCommit(w)
    \/ \E w \in Workers : HeuristicStep(w)
    \/ \E w \in Workers : HeuristicCommit(w)
    \/ \E w \in Workers, outcome \in MiniLMOutcomes : MiniLMStep(w, outcome)
    \/ \E w \in Workers : LLMSelect(w)
    \/ \E w \in Workers : LLMAttempt(w)
    \/ \E w \in Workers : LLMGiveUp(w)
    \/ \E w \in Workers : LLMWrite(w)
    \/ \E w \in Workers : LLMCommit(w)
    \/ \E w \in Workers, ok \in BOOLEAN : BulkInsert(w, ok)
    \/ \E w \in Workers, ok \in BOOLEAN : BulkFallback(w, ok)
    \/ \E w \in Workers, ok \in BOOLEAN : UpdateDocumentStatus(w, ok)
    \/ \E w \in Workers : Raise(w)

SpecRace == InitRace /\ [][NextRace]_vars

-----------------------------------------------------------------------------
(* normalize_txn applied to one raw row                                     *)

\* a cell the row does not have
Absent == [type |-> "absent", float |-> 0, str |-> ""]

\* what a parser may leave in the date cell
DateCells ==
    { Absent, PyNone } \cup
    { PyStr(x) : x \in {"", "   ", "12", "99/99/2023", "12JAN23", "12-06-2023"} }

\* what a parser may leave in the amount, debit and credit cells: nothing,
\* None, an empty or placeholder text, a numeric 0.0 for the unused side, a
\* number or the text of one
AmountCells ==
    { Absent, PyNone, PyFloat(0), PyFloat(500) } \cup
    { PyStr(x) : x \in {"", "0.00", "-250.00"} }

SideCells ==
    { Absent, PyNone, PyFloat(0), PyFloat(100) } \cup
    { PyStr(x) : x \in {"", "-", " ", "0.00", "100.00", "(100)", "1,500.00", "abc"} }

\* the mapping with the cells that are present
RowOf(cells) == [k \in { x \in DOMAIN cells : cells[x] # Absent } |-> cells[k]]

NormalizeInputs ==
    { RowOf([date |-> d, description |-> desc, amount |-> a, debit |-> dr,
             credit |-> cr, withdrawal |-> wd]) :
        d \in DateCells, desc \in {PyStr("JIO"), PyNone}, a \in AmountCells,
        dr \in SideCells, cr \in SideCells, wd \in {Absent, PyStr("(100)")} }

NoInput == [raw_txns |-> <<>>, bank_name |-> NULL]

\* no file, no worker at work, nothing stored
Quiescent ==
    /\ input = [f \in {1} |-> NoInput]
    /\ MINILM_LOW_CONF_THRESHOLD = MINILM_LOW_CONF_DEFAULT
    /\ LLM_FALLBACK_CONF_THRESHOLD = LLM_FALLBACK_CONF_DEFAULT
    /\ LLM_RETRY_MAX = 1
    /\ LLM_BATCH_SIZE = 1
    /\ runs = 0
    /\ documents = <<>>
    /\ statements = <<>>
    /\ transactions = <<>>
    /\ classification_log = <<>>
    /\ conn = [w \in Workers |-> NoWrites]
    /\ wk = [w \in Workers |-> [NewWorker(w, FALSE) EXCEPT !.pc = "idle"]]
    /\ trace = [w \in Workers |-> <<>>]
    /\ aggregated = NewAggregated
    /\ mainpc = "idle"
    /\ _MODEL = 0
    /\ _LABELS = 0
    /\ _EMBS = 0

InitNormalize ==
    /\ call \in { [pc |-> "call", tx |-> tx] : tx \in NormalizeInputs }
    /\ faults = 0
    /\ Quiescent

NormalizeTxn ==
    /\ call.pc = "call"
    /\ call' = [pc |-> "return", tx |-> call.tx,
                outcome |-> normalize_txn(call.tx, 1)]
    /\ UNCHANGED <<input, MINILM_LOW_CONF_THRESHOLD, LLM_FALLBACK_CONF_THRESHOLD,
                   LLM_RETRY_MAX, LLM_BATCH_SIZE, tables, conn, wk, trace,
                   aggregated, mainpc, runs, faults, _MODEL, _LABELS, _EMBS>>

NextNormalize == NormalizeTxn

SpecNormalize == InitNormalize /\ [][NextNormalize]_vars

-----------------------------------------------------------------------------
(* The three classifiers called in one process on any Python value          *)

MaxCalls == 3

\* bool(v) is False
Falsy(v) ==
    \/ v.type = "NoneType"
    \/ v.type = "str" /\ v.str = ""
    \/ v.type = "float" /\ v.float = 0

Returns(result) == [exception |-> NULL, result |-> result]

Raises(exception) == [exception |-> exception, result |-> [meta |-> "raised"]]

\* regex_classifier.py lines 129-132: not description, then description.strip()
classify_with_regex_of(v) ==
    IF Falsy(v) THEN Returns(classify_with_regex(""))
    ELSE IF v.type # "str" THEN Raises("AttributeError")
    ELSE Returns(classify_with_regex(v.str))

\* heuristics_classifier.py line 53: not description or not description.strip()
classify_with_heuristics_of(v) ==
    IF Falsy(v) THEN Returns(classify_with_heuristics(""))
    ELSE IF v.type # "str" THEN Raises("AttributeError")
    ELSE Returns(classify_with_heuristics(v.str))

\* miniLM_classifier.py lines 314-318: what classify_single returns for an
\* exception raised inside it
CaughtException == [label |-> <<PENDING>>, confidence |-> 0, meta |-> "exception"]

\* classify_single line 222: the model is loaded when there is none
NeedsInit_always == TRUE

NeedsInit == _MODEL = 0

\* how _worker_init may end: model and index built, SentenceTransformer()
\* raised, or encode() of the prototypes raised after the model was set
LoadOutcomes == {"ok", "model_error", "encode_error"}

\* the texts the embedding model of this development has answers for
Descriptions == {"JIO", "IMPS P2A", "UPI", "ZXCV 12", "mkt byculla", "CLG"}

SalaryDescriptions ==
    {"SALARY CREDIT FEB 2024", "salarycredit", "NEFT SALARY CREDIT ACME",
     "SALARY CREDIT DR RAWLE DENTAL CLINIC", "CREDIT OF SALARY"}

\* UPI texts: a merchant behind UPI, a payee handle, or neither
UpiDescriptions ==
    {"UPI-DR-SWIGGY-PAY", "UPI/SWIGGY@ybl", "UPI-SALARY", "UPI-ZXCV JIO",
     "UPI/12/DR RAWLE DENTAL CLINIC", "UPI/ZXCV", "UPI/123456789012/ZXCV",
     "UPI/12345/ZXCV", "VPA 12", "UPI/RAMESH@YBL", "UPI/ZXCV@YBL"}

\* texts of the later rules: a vendor key's first word inside a word, a
\* category pattern, an amount
RuleDescriptions == {"XYZ UNKNOWN MERCHANT 99887", "CHAI 12", "ZXCV 12.50"}

\* the texts that only the rule-based classifiers are called with
RuleOnly == SalaryDescriptions \cup UpiDescriptions \cup RuleDescriptions

\* empty, blank, None and numbers
Malformed == { PyStr(""), PyStr("   "), PyNone, PyFloat(0), PyFloat(12) }

ClassifierInputs ==
    { PyStr(x) : x \in Descriptions \cup RuleOnly } \cup Malformed

InitClassify ==
    /\ call \in { [pc |-> "ready", queue |-> q, singles |-> 0, model_builds |-> 0,
                   index_builds |-> 0, fn |-> NULL, arg |-> PyNone,
                   outcome |-> Raises(NULL)] :
                      q \in SeqsUpTo(ClassifierInputs, MaxCalls) \ {<<>>} }
    /\ faults = MaxFaults
    /\ Quiescent

\* the call returned to its caller or raised into it
Done(fn, outcome) ==
    [call EXCEPT !.pc = "return", !.queue = Tail(@), !.fn = fn,
                 !.arg = Head(call.queue), !.outcome = outcome]

ClassifyWithRegex ==
    /\ call.pc \in {"ready", "return"}
    /\ call.queue # <<>>
    /\ call' = Done("classify_with_regex", classify_with_regex_of(Head(call.queue)))
    /\ UNCHANGED <<input, MINILM_LOW_CONF_THRESHOLD, LLM_FALLBACK_CONF_THRESHOLD,
                   LLM_RETRY_MAX, LLM_BATCH_SIZE, tables, conn, wk, trace,
                   aggregated, mainpc, runs, faults, _MODEL, _LABELS, _EMBS>>

ClassifyWithHeuristics ==
    /\ call.pc \in {"ready", "return"}
    /\ call.queue # <<>>
    /\ call' = Done("classify_with_heuristics",
                    classify_with_heuristics_of(Head(call.queue)))
    /\ UNCHANGED <<input, MINILM_LOW_CONF_THRESHOLD, LLM_FALLBACK_CONF_THRESHOLD,
                   LLM_RETRY_MAX, LLM_BATCH_SIZE, tables, conn, wk, trace,
                   aggregated, mainpc, runs, faults, _MODEL, _LABELS, _EMBS>>

\* classify_single, lines 214-318, with the lazy _worker_init of lines 176-209
ClassifySingle(load) ==
    /\ call.pc \in {"ready", "return"}
    /\ call.queue # <<>>
    /\ Head(call.queue) \in ClassifierInputs \ { PyStr(x) : x \in RuleOnly }
    /\ load # "ok" => (NeedsInit /\ faults > 0)
    /\ faults' = IF load = "ok" THEN faults ELSE faults - 1
    /\ LET text == Head(call.queue)
           model == NeedsInit /\ load \in {"ok", "encode_error"}
           index == NeedsInit /\ load = "ok"
           embs == IF index THEN call.index_builds + 1 ELSE _EMBS
           result ==
               IF NeedsInit /\ load # "ok" THEN CaughtException
               ELSE IF Falsy(text) THEN classify_single("")
               ELSE IF text.type # "str" THEN CaughtException
               ELSE IF text.str = "   " \/ apply_rule_overrides(text.str).matched
               THEN classify_single(text.str)
               ELSE IF embs = 0 THEN CaughtException
               ELSE classify_single(text.str)
       IN /\ _MODEL' = IF model THEN call.model_builds + 1 ELSE _MODEL
          /\ _EMBS' = embs
          /\ _LABELS' = IF index THEN call.index_builds + 1 ELSE _LABELS
          /\ call' = [Done("classify_single", Returns(result)) EXCEPT
                         !.singles = @ + 1,
                         !.model_builds = IF model THEN @ + 1 ELSE @,
                         !.index_builds = IF index THEN @ + 1 ELSE @]
    /\ UNCHANGED <<input, MINILM_LOW_CONF_THRESHOLD, LLM_FALLBACK_CONF_THRESHOLD,
                   LLM_RETRY_MAX, LLM_BATCH_SIZE, tables, conn, wk, trace,
                   aggregated, mainpc, runs>>

NextClassify ==
    \/ ClassifyWithRegex
    \/ ClassifyWithHeuristics
    \/ \E load \in LoadOutcomes : ClassifySingle(load)

SpecClassify == InitClassify /\ [][NextClassify]_vars

-----------------------------------------------------------------------------
(* Properties                                                               *)

\* the place of a stage in the cascade
StageRank(stage) ==
    CASE stage = "regex" -> 1
      [] stage = "heuristic" -> 2
      [] stage = "bert" -> 3
      [] stage = "llm" -> 4

Stages == {"regex", "heuristic", "bert", "llm"}

\* the stage wrote the transaction's classification fields
Wrote(e) == e.kind \in {"verdict", "unlogged"}

\* the stage resolved the transaction at or above the threshold of the next
\* selection
ResolvedAbove(e) ==
    /\ e.kind = "verdict"
    /\ e.category # PENDING
    /\ \/ e.stage \in {"regex", "heuristic"} /\ e.confidence >= MINILM_LOW_CONF_THRESHOLD
       \/ e.stage = "bert" /\ e.confidence >= LLM_FALLBACK_CONF_THRESHOLD

\* C1: within one pass, for every setting of the two thresholds, a transaction
\* that regex or heuristics resolved with confidence >= MINILM_LOW_CONF_THRESHOLD,
\* or that bert resolved with confidence >= LLM_FALLBACK_CONF_THRESHOLD, is
\* neither selected nor written by any later stage: no later event of the pass
\* names it, and its row still holds that verdict.
C1_ResolvedNotReprocessed ==
    \A w \in Workers : \A a \in DOMAIN trace[w] :
        ResolvedAbove(trace[w][a]) =>
            /\ \A b \in DOMAIN trace[w] :
                  (a < b /\ trace[w][b].txn = trace[w][a].txn)
                      => StageRank(trace[w][b].stage) <= StageRank(trace[w][a].stage)
            /\ View(w, trace[w][a].txn).category = trace[w][a].category
            /\ View(w, trace[w][a].txn).confidence = trace[w][a].confidence
            /\ View(w, trace[w][a].txn).classification_source = trace[w][a].stage

\* a finished pass in which regex resolved one transaction above the threshold
\* while MiniLM and the LLM wrote verdicts for another
C1_Witness ==
    \E w \in Workers :
        /\ wk[w].pc = "done"
        /\ \E a, b, c \in DOMAIN trace[w] :
              /\ ResolvedAbove(trace[w][a]) /\ trace[w][a].stage = "regex"
              /\ trace[w][b].kind = "verdict" /\ trace[w][b].stage = "bert"
              /\ trace[w][c].kind = "verdict" /\ trace[w][c].stage = "llm"

\* C2: within one pass, first-time or re-run, the sources written to one
\* transaction only move forward in the order regex, heuristic, bert, llm: of
\* two writes to one transaction the later one has the strictly later stage,
\* and the row's classification_source is the stage of the last write.
C2_SourceAdvances ==
    \A w \in Workers : \A a \in DOMAIN trace[w] :
        Wrote(trace[w][a]) =>
            LET later == { b \in DOMAIN trace[w] :
                             /\ a < b /\ Wrote(trace[w][b])
                             /\ trace[w][b].txn = trace[w][a].txn }
            IN /\ \A b \in later :
                     StageRank(trace[w][a].stage) < StageRank(trace[w][b].stage)
               /\ later = {} =>
                     View(w, trace[w][a].txn).classification_source = trace[w][a].stage

\* a finished pass that wrote all four sources, in order, to one transaction
C2_Witness ==
    \E w \in Workers :
        /\ wk[w].pc = "done"
        /\ \E a, b, c, d \in DOMAIN trace[w] :
              /\ a < b /\ b < c /\ c < d
              /\ \A k \in {a, b, c, d} :
                    Wrote(trace[w][k]) /\ trace[w][k].txn = trace[w][a].txn
              /\ trace[w][a].stage = "regex" /\ trace[w][b].stage = "heuristic"
              /\ trace[w][c].stage = "bert" /\ trace[w][d].stage = "llm"

\* the classification fields of a row
Fields(row) ==
    <<row.category, row.subcategory, row.confidence, row.classification_source>>

\* worker w has re-run a file whose previous pass completed and had left every
\* transaction of the statement with a non-PENDING category
RerunOfResolved(w) ==
    /\ wk[w].rerun
    /\ wk[w].prev_ok
    /\ \A t \in DOMAIN wk[w].txn0 :
          wk[w].txn0[t].category \notin {NULL, PENDING}

\* the re-run of worker w has left the classification fields as it found them
FieldsUnchanged(w) ==
    \A t \in DOMAIN wk[w].txn0 : Fields(transactions[t]) = Fields(wk[w].txn0[t])

\* C3 as stated: if after a complete pass every transaction of the statement
\* has a non-PENDING category, a further run on the same file, with the same
\* thresholds, leaves the category, subcategory, confidence and
\* classification_source of every transaction as they were.
C3_RerunFixedPoint ==
    \A w \in Workers : RerunOfResolved(w) => FieldsUnchanged(w)

\* C3 amended: the same, for a statement none of whose transactions still
\* satisfies the Stage 3 selection predicate after the complete pass (a regex
\* or heuristic label below MINILM_LOW_CONF_THRESHOLD, left behind by a
\* Stage 3 write that failed).
C3_RerunFixedPointAboveThreshold ==
    \A w \in Workers :
        ( /\ RerunOfResolved(w)
          /\ \A t \in DOMAIN wk[w].txn0 :
                ~( /\ wk[w].txn0[t].classification_source \in {"regex", "heuristic"}
                   /\ wk[w].txn0[t].confidence < MINILM_LOW_CONF_THRESHOLD ) )
        => FieldsUnchanged(w)

\* a completed re-run of a fully resolved statement whose first pass had
\* written verdicts of MiniLM and of the LLM
C3_Witness ==
    \E w \in Workers :
        /\ wk[w].pc = "done"
        /\ RerunOfResolved(w)
        /\ \A t \in DOMAIN wk[w].txn0 :
              ~( /\ wk[w].txn0[t].classification_source \in {"regex", "heuristic"}
                 /\ wk[w].txn0[t].confidence < MINILM_LOW_CONF_THRESHOLD )
        /\ \E t, u \in DOMAIN wk[w].txn0 :
              /\ wk[w].txn0[t].classification_source = "bert"
              /\ wk[w].txn0[u].classification_source = "llm"

\* the Stage 1 and 2, Stage 3 and Stage 4 selection predicates
SelectionPredicate(stage, row) ==
    CASE stage \in {"regex", "heuristic"} -> row.category \in {NULL, PENDING}
      [] stage = "bert" ->
            \/ row.category \in {NULL, PENDING}
            \/ /\ row.classification_source \in {"regex", "heuristic"}
               /\ row.confidence < MINILM_LOW_CONF_THRESHOLD
      [] stage = "llm" ->
            \/ row.category = PENDING
            \/ /\ row.classification_source = "bert"
               /\ row.confidence < LLM_FALLBACK_CONF_THRESHOLD

\* the stage whose loop worker w is in
StageAt(pc) ==
    CASE pc = "regex" -> "regex"
      [] pc = "heur" -> "heuristic"
      [] pc = "mini" -> "bert"
      [] pc \in {"llm_batch", "llm_write"} -> "llm"

\* C4: once a statement exists for the file, a further run inserts no
\* transaction and creates no document or statement (the transactions of the
\* statement are the same before and after every step of the re-run), and
\* every transaction a stage of the re-run is still to be applied to satisfies
\* that stage's selection predicate at that moment.
C4_RerunInsertsNothing ==
    /\ [](\A w \in Workers :
            (wk[w].rerun /\ wk[w].pc \in {"regex", "heur", "mini", "llm_batch", "llm_write"})
            => \A k \in wk[w].i .. Len(wk[w].pending) :
                   SelectionPredicate(StageAt(wk[w].pc), View(w, wk[w].pending[k])))
    /\ [][ \A w \in Workers :
             ( /\ wk[w].pc \in Running
               /\ statement_exists(wk[w].filepath) # 0
               /\ wk[w].pc = "start" \/ wk[w].rerun )
             => /\ documents' = documents
                /\ statements' = statements
                /\ Len(transactions') = Len(transactions)
                /\ \A t \in DOMAIN transactions :
                      transactions'[t].statement_id = transactions[t].statement_id ]_vars

\* a re-run has finished after applying a stage to a transaction that an
\* earlier pass had left PENDING
C4_Witness ==
    \E w \in Workers :
        /\ wk[w].pc = "done" /\ wk[w].rerun
        /\ \E a \in DOMAIN trace[w] : Wrote(trace[w][a])

\* the stage answered PENDING for the transaction
AnsweredPending(e, stage, t) ==
    /\ e.kind \in {"verdict", "skipped", "failed", "unlogged"}
    /\ e.stage = stage
    /\ e.txn = t
    /\ e.category = PENDING

\* C5: a transaction for which regex, heuristics and MiniLM all answered PENDING
\* in a pass has gone through them in that order and then through the LLM; when
\* every LLM attempt for it failed, it ends the pass with category PENDING,
\* confidence 0 and classification_source llm.
C5_CascadeExhaustion ==
    \A w \in Workers :
        wk[w].pc = "done" =>
            \A a \in DOMAIN trace[w] :
              AnsweredPending(trace[w][a], "regex", trace[w][a].txn) =>
              \A b \in DOMAIN trace[w] :
                AnsweredPending(trace[w][b], "heuristic", trace[w][a].txn) =>
                \A c \in DOMAIN trace[w] :
                  AnsweredPending(trace[w][c], "bert", trace[w][a].txn) =>
                   /\ a < b /\ b < c
                   /\ \E d \in DOMAIN trace[w] :
                         /\ c < d
                         /\ trace[w][d].kind = "verdict"
                         /\ trace[w][d].stage = "llm"
                         /\ trace[w][d].txn = trace[w][a].txn
                         /\ trace[w][d].meta = "llm_failed" =>
                               Fields(transactions[trace[w][a].txn])
                                   = <<PENDING, NULL, 0, "llm">>

\* a finished pass in which MiniLM had answered PENDING with a positive
\* confidence and the LLM gave up
C5_Witness ==
    \E w \in Workers :
        /\ wk[w].pc = "done"
        /\ \E a, b, c, d \in DOMAIN trace[w] :
              /\ AnsweredPending(trace[w][a], "regex", trace[w][a].txn)
              /\ AnsweredPending(trace[w][b], "heuristic", trace[w][a].txn)
              /\ AnsweredPending(trace[w][c], "bert", trace[w][a].txn)
              /\ trace[w][c].confidence > 0
              /\ trace[w][d].stage = "llm" /\ trace[w][d].txn = trace[w][a].txn
              /\ trace[w][d].meta = "llm_failed"

\* C6: when every classify_batch attempt for a batch has raised,
\* llm_classify_with_retry returns one (PENDING, null, 0.0, llm_failed) result
\* per description of the batch and the worker goes on with the next batch, or
\* with the writes after the last one; the write loop has one result for each
\* selected transaction, and a transaction whose result is llm_failed is
\* written as PENDING, 0.0, llm.
C6_LLMFailureDegrades ==
    /\ [](\A w \in Workers :
            /\ wk[w].pc = "llm_write" => Len(wk[w].llm_results) = Len(wk[w].pending)
            /\ \A d \in DOMAIN trace[w] :
                  (trace[w][d].stage = "llm" /\ trace[w][d].meta = "llm_failed")
                      => Fields(View(w, trace[w][d].txn)) = <<PENDING, NULL, 0, "llm">>)
    /\ [][ \A w \in Workers :
             (wk[w].pc = "llm_batch" /\ wk[w].attempt = LLM_RETRY_MAX)
             => /\ wk'[w].pc = IF wk[w].batch_start + LLM_BATCH_SIZE < Len(wk[w].pending)
                               THEN "llm_batch" ELSE "llm_write"
                /\ wk'[w].batch_start = wk[w].batch_start + LLM_BATCH_SIZE
                /\ wk'[w].llm_results =
                      wk[w].llm_results \o
                          [k \in 1..Cardinality(BatchOf(w)) |->
                              [category |-> PENDING, subcategory |-> NULL,
                               confidence |-> 0, meta |-> "llm_failed"]] ]_vars

\* a finished pass whose first LLM batch was given up and whose second was
\* answered
C6_Witness ==
    \E w \in Workers :
        /\ wk[w].pc = "done"
        /\ LLM_BATCH_SIZE = 1
        /\ \E a, b \in DOMAIN trace[w] :
              /\ a < b
              /\ trace[w][a].stage = "llm" /\ trace[w][a].meta = "llm_failed"
              /\ trace[w][b].stage = "llm" /\ trace[w][b].meta = "llm"
              /\ Fields(transactions[trace[w][a].txn]) = <<PENDING, NULL, 0, "llm">>

\* C7: for every LLM_RETRY_MAX >= 1 and every pattern of failures,
\* classify_batch is invoked at most LLM_RETRY_MAX times for one batch; a
\* successful attempt ends the loop at once with its result, and at the
\* ceiling the loop ends without another invocation.
C7_RetryCeiling ==
    /\ [](\A w \in Workers :
            /\ wk[w].calls <= LLM_RETRY_MAX
            /\ wk[w].pc = "llm_batch" => wk[w].attempt <= LLM_RETRY_MAX)
    /\ [][ \A w \in Workers :
             wk[w].pc = "llm_batch" =>
                /\ wk[w].attempt = LLM_RETRY_MAX =>
                      /\ wk'[w].calls = LLM_RETRY_MAX
                      /\ wk'[w].batch_start = wk[w].batch_start + LLM_BATCH_SIZE
                /\ (wk'[w].calls = CallsSoFar(w) + 1
                        /\ Len(wk'[w].llm_results) > Len(wk[w].llm_results)) =>
                      /\ wk'[w].batch_start = wk[w].batch_start + LLM_BATCH_SIZE
                      /\ wk'[w].attempt = 0
                      /\ \A k \in (Len(wk[w].llm_results) + 1) .. Len(wk'[w].llm_results) :
                            wk'[w].llm_results[k] \in LLMAnswers ]_vars

\* with a ceiling of two or more, a batch was answered at its last allowed
\* attempt
C7_Witness ==
    \E w \in Workers :
        /\ LLM_RETRY_MAX > 1
        /\ wk[w].pc = "llm_write"
        /\ wk[w].calls = LLM_RETRY_MAX
        /\ \E k \in DOMAIN wk[w].llm_results : wk[w].llm_results[k].meta = "llm"

\* the files whose result main has taken and that did not fail
Succeeded ==
    { f \in DOMAIN aggregated.per_file : "error" \notin DOMAIN aggregated.per_file[f] }

\* the sum of one metric over the files that did not fail
Total(key) ==
    SeqSum([f \in 1..Cardinality(Workers) |->
               IF f \in Succeeded THEN aggregated.per_file[f][key] ELSE 0])

\* main has returned from a run
MainReturned == mainpc = "idle" /\ \E w \in Workers : wk[w].pc # "idle"

\* C8: whichever workers raise, main takes a result for every file; a failing
\* file's record holds the error and its trace and raises the error count by
\* one, every other file's record is the metrics of its completed pass, and
\* the totals are the sums of the metrics of the files that did not fail.
C8_FailuresIsolated ==
    /\ \A f \in DOMAIN aggregated.per_file :
          /\ aggregated.per_file[f] = wk[f].metrics
          /\ wk[f].pc = "failed" <=> "error" \in DOMAIN aggregated.per_file[f]
          /\ wk[f].pc = "failed" => "trace" \in DOMAIN aggregated.per_file[f]
          /\ wk[f].pc = "done" <=> f \in Succeeded
    /\ aggregated.errors = Cardinality(DOMAIN aggregated.per_file \ Succeeded)
    /\ aggregated.files_processed = Cardinality(DOMAIN aggregated.per_file)
    /\ aggregated.total_inserted = Total("inserted")
    /\ aggregated.total_regex_attempted = Total("regex_attempted")
    /\ aggregated.total_regex_classified = Total("regex_classified")
    /\ aggregated.total_heur_attempted = Total("heur_attempted")
    /\ aggregated.total_heur_classified = Total("heur_classified")
    /\ aggregated.total_mini_attempted = Total("mini_attempted")
    /\ aggregated.total_mini_classified = Total("mini_classified")
    /\ aggregated.total_llm_attempted = Total("llm_attempted")
    /\ aggregated.total_llm_classified = Total("llm_classified")
    /\ MainReturned => DOMAIN aggregated.per_file = Workers

\* main has returned from a run in which one file failed and another was
\* inserted and classified
C8_Witness ==
    /\ MainReturned
    /\ \E f, g \in Workers :
          /\ wk[f].pc = "failed"
          /\ wk[g].pc = "done" /\ wk[g].metrics.inserted > 0
    /\ aggregated.errors = 1
    /\ aggregated.total_inserted = 1

\* C9: the persisted state never shows classification fields committed by a
\* stage without that stage's log entry for the same verdict: every committed
\* row whose classification_source is a stage has a persisted log entry of
\* that stage with the row's confidence.
C9_FieldsAndLogTogether ==
    \A t \in DOMAIN transactions :
        transactions[t].classification_source \in Stages =>
            \E k \in DOMAIN classification_log :
                /\ classification_log[k].txn_id = t
                /\ classification_log[k].stage = transactions[t].classification_source
                /\ classification_log[k].confidence = transactions[t].confidence

\* the log entries of stage s for transaction t that the pass of w has added
Gained(w, t, s) ==
    { k \in (wk[w].log0 + 1) .. Len(classification_log) :
        classification_log[k].txn_id = t /\ classification_log[k].stage = s }

\* the attempts of stage s on transaction t in the pass of w
Attempts(w, t, s) ==
    { a \in DOMAIN trace[w] :
        /\ trace[w][a].kind \in {"verdict", "skipped", "failed", "unlogged"}
        /\ trace[w][a].txn = t
        /\ trace[w][a].stage = s }

\* C10: after a pass that completed without any failure, every transaction has
\* gained exactly one log entry for each stage that attempted it, PENDING
\* verdicts included, and none for a stage that did not attempt it.
C10_OneEntryPerAttempt ==
    \A w \in Workers :
        (wk[w].pc = "done" /\ faults = MaxFaults) =>
            \A t \in DOMAIN transactions : \A s \in Stages :
                /\ Cardinality(Attempts(w, t, s)) <= 1
                /\ Cardinality(Gained(w, t, s)) = Cardinality(Attempts(w, t, s))

\* C11: in every persisted state, whatever passes, re-runs, stage failures
\* and rollbacks came before, a transaction whose category is neither null
\* nor PENDING names the stage that classified it in classification_source.
C11_ResolvedHasSource ==
    \A t \in DOMAIN transactions :
        transactions[t].category \notin {NULL, PENDING} =>
            transactions[t].classification_source \in Stages

\* a resolved transaction persisted by a re-run, after a failure
C11_Witness ==
    /\ faults < MaxFaults
    /\ \E w \in Workers :
          /\ wk[w].rerun
          /\ \E a \in DOMAIN trace[w] :
                /\ trace[w][a].kind = "verdict"
                /\ trace[w][a].category # PENDING
                /\ transactions[trace[w][a].txn].category = trace[w][a].category
                /\ transactions[trace[w][a].txn].classification_source
                       = trace[w][a].stage


\* the direct amount of the row is absent or cleans to zero
NoDirectAmount(tx) == clean_amount(Get(tx, "amount", PyNone)) = 0

\* one of the cells under keys holds an amount
HoldsAmount(tx, keys) ==
    \E k \in DOMAIN keys : clean_amount(Get(tx, keys[k], PyNone)) # 0

\* normalize_txn returned a record for the row
Accepted == call.pc = "return" /\ call.outcome.exception = NULL
                /\ call.outcome.returned # <<>>

\* C12: for every row normalize_txn accepts that carries no non-zero direct
\* amount, the unused side possibly carried as a numeric 0.0, the stored
\* amount is negative exactly when a debit-like field holds the amount,
\* positive exactly when (no debit-like and) a credit-like field holds it,
\* and zero exactly when neither does.
C12_SignFollowsSide ==
    (Accepted /\ NoDirectAmount(call.tx)) =>
        LET amount == call.outcome.returned[1].amount
            outflow == HoldsAmount(call.tx, debit_keys)
            inflow == ~ outflow /\ HoldsAmount(call.tx, credit_keys)
        IN /\ amount < 0 <=> outflow
           /\ amount > 0 <=> inflow
           /\ amount = 0 <=> (~ outflow /\ ~ inflow)

\* no amount, debit-like or credit-like cell of the row has a value
NothingPopulated(tx) ==
    /\ ~ has_value(Get(tx, "amount", PyNone))
    /\ Populated(tx, debit_keys) = {}
    /\ Populated(tx, credit_keys) = {}

\* the row has a date text of four characters or more that parse_date resolves
ParsableDate(tx) ==
    /\ "date" \in DOMAIN tx
    /\ tx["date"].type = "str"
    /\ parse_date(strip(tx["date"].str))

\* C13: normalize_txn on a row with a parsable date, a description and no
\* populated amount, debit-like or credit-like field returns a transaction
\* with amount 0 and no source field; it raises nothing.
C13_NothingPopulatedGivesZero ==
    (/\ call.pc = "return"
     /\ ParsableDate(call.tx)
     /\ Get(call.tx, "description", PyStr("")).type = "str"
     /\ NothingPopulated(call.tx)) =>
        /\ call.outcome.exception = NULL
        /\ Len(call.outcome.returned) = 1
        /\ call.outcome.returned[1].amount = 0
        /\ call.outcome.amount_source = NULL


\* the rows of the file of w, and those of them with a parsable date
RawTxns(w) == input[wk[w].filepath].raw_txns

Dated(w) == { k \in DOMAIN RawTxns(w) : ParsableDate(RawTxns(w)[k]) }

\* the first-time pass of w is past its normalise-and-insert step and no
\* failure was injected
PastInsert(w) ==
    /\ faults = MaxFaults
    /\ ~ wk[w].rerun
    /\ wk[w].statement_id # 0
    /\ wk[w].pc \in (Running \ {"start", "parse", "docstmt", "insert"})
                        \cup {"done", "failed"}

\* C14: for any list of raw rows of one file that holds a row without a
\* usable date, only such rows are dropped: the file is not reported as an
\* error, the number of inserted transactions is the number of rows with a
\* parsable date, and every one of them is stored and taken into
\* classification.
C14_OnlyUndatedRowsDropped ==
    \A w \in Workers :
        (PastInsert(w) /\ Dated(w) # DOMAIN RawTxns(w)) =>
            /\ wk[w].pc # "failed"
            /\ wk[w].metrics.inserted = Cardinality(Dated(w))
            /\ Cardinality({ t \in DOMAIN transactions :
                   transactions[t].statement_id = wk[w].statement_id })
                 = Cardinality(Dated(w))
            /\ \A t \in DOMAIN transactions :
                   transactions[t].statement_id = wk[w].statement_id =>
                       \E a \in DOMAIN trace[w] :
                           /\ trace[w][a].kind = "select"
                           /\ trace[w][a].stage = "regex"
                           /\ trace[w][a].txn = t


\* the category of what a classifier returned
Category(fn, result) ==
    IF fn = "classify_single" THEN result.label[1] ELSE result.category

\* C15: classify_with_regex, classify_with_heuristics and classify_single,
\* given an empty string, None or a value that is not a text, return PENDING
\* with confidence 0 and a reason or error tag in the metadata; none raises.
C15_NoCrashGuarantee ==
    (/\ call.pc = "return"
     /\ call.arg \in Malformed \ {PyStr("   ")}) =>
        /\ call.outcome.exception = NULL
        /\ Category(call.fn, call.outcome.result) = PENDING
        /\ call.outcome.result.confidence = 0
        /\ call.outcome.result.meta \in {"empty", "empty_text", "exception"}

\* C19: in one process, over any sequence of classify_single calls, the
\* embedding model and the prototype index are built at most once: there is
\* none before the first call, the first call builds them (unless the load
\* itself raises), only a classify_single call sets them, and once they are
\* set no call rebuilds or replaces the model, the labels or the vectors.
C19_BuiltOnceLazily ==
    [][ /\ call.singles = 0 => (_MODEL = 0 /\ _LABELS = 0 /\ _EMBS = 0)
        /\ (call.singles = 0 /\ call'.singles = 1 /\ faults' = faults) =>
               (_MODEL' # 0 /\ _LABELS' # 0 /\ _EMBS' # 0)
        /\ <<_MODEL, _LABELS, _EMBS>>' # <<_MODEL, _LABELS, _EMBS>> =>
               (call'.fn = "classify_single" /\ call'.singles = call.singles + 1)
        /\ _MODEL # 0 => _MODEL' = _MODEL
        /\ _EMBS # 0 => (_EMBS' = _EMBS /\ _LABELS' = _LABELS)
        /\ call'.model_builds <= 1 /\ call'.index_builds <= 1 ]_vars

\* a third classify_single call in a process whose second call loaded the
\* model after the first load had failed
C19_Witness ==
    /\ call.pc = "return"
    /\ call.singles = 3
    /\ call.fn = "classify_single"
    /\ faults < MaxFaults
    /\ call.index_builds = 1
    /\ _EMBS # 0
    /\ call.outcome.result.meta = "bert_similarity"

\* C20: every description without a UPI token whose normalized text contains
\* SALARY CREDIT is returned by classify_with_regex as Income / Salary with
\* confidence 0.98, so the selection of Stage 2 (category NULL or PENDING)
\* never takes it.
C20_SalaryCreditAt98 ==
    (/\ call.pc = "return"
     /\ call.fn = "classify_with_regex"
     /\ call.arg.type = "str"
     /\ "UPI" \notin Words(normalize_desc(call.arg.str))
     /\ Contains(normalize_desc(call.arg.str), <<"SALARY", "CREDIT">>)) =>
        /\ call.outcome.exception = NULL
        /\ call.outcome.result.category = "Income"
        /\ call.outcome.result.subcategory = "Salary"
        /\ call.outcome.result.confidence = 98
        /\ call.outcome.result.category \notin {NULL, PENDING}


\* the transactions the pass has selected for the stage so far
SelectedFor(tr, stage) ==
    { tr[a].txn : a \in { x \in DOMAIN tr : tr[x].kind = "select" /\ tr[x].stage = stage } }

\* the transactions the stage has dealt with so far
AttemptedBy(tr, stage) ==
    { tr[a].txn : a \in { x \in DOMAIN tr : tr[x].kind # "select" /\ tr[x].stage = stage } }

\* C16: within one pass, first-time or re-run, the stages run strictly in the
\* order regex, heuristic, bert, llm: what a pass does is ordered by stage,
\* and at the step that selects transactions for a stage every earlier stage
\* has dealt with every transaction it had selected and the connection holds
\* no uncommitted write, so the selection reads what the earlier stages stored.
C16_StagesStrictlySequential ==
    [][ \A w \in Workers :
          /\ \A a, b \in DOMAIN trace'[w] :
                 a < b => StageRank(trace'[w][a].stage) <= StageRank(trace'[w][b].stage)
          /\ \A stage \in Stages :
                 (SelectedFor(trace'[w], stage) # SelectedFor(trace[w], stage)) =>
                     /\ conn'[w] = NoWrites
                     /\ \A earlier \in Stages :
                            StageRank(earlier) < StageRank(stage) =>
                                AttemptedBy(trace'[w], earlier)
                                    = SelectedFor(trace'[w], earlier) ]_vars

\* a pass in which each of the four stages selected a transaction
C16_Witness ==
    \E w \in Workers :
        /\ \A stage \in Stages : SelectedFor(trace[w], stage) # {}
        /\ AttemptedBy(trace[w], "llm") # {}


\* the parser returns no bank tag or no rows for the file
NoBankOrNoRows(filepath) ==
    input[filepath].bank_name = NULL \/ Len(input[filepath].raw_txns) = 0

\* the statements stored for a file
FileStatements(filepath) ==
    { x \in DOMAIN statements :
        documents[statements[x].doc_id].original_filename = filepath }

\* C17: when the parser returns no bank tag or no rows for a file, the worker
\* stores no document, statement, transaction or log entry for it and
\* returns zero-count metrics without an error entry; main counts the file
\* as processed and not as an error; every later run on the file takes the
\* first-time branch again.
C17_NothingParsedSkipped ==
    \A w \in Workers :
        NoBankOrNoRows(wk[w].filepath) =>
            /\ \A d \in DOMAIN documents :
                   documents[d].original_filename # wk[w].filepath
            /\ FileStatements(wk[w].filepath) = {}
            /\ Workers = {w} => (transactions = <<>> /\ classification_log = <<>>)
            /\ ~ wk[w].rerun
            /\ wk[w].pc = "done" =>
                   /\ wk[w].metrics = NewMetrics
                   /\ "error" \notin DOMAIN wk[w].metrics
                   /\ wk[w].filepath \in DOMAIN aggregated.per_file =>
                          /\ aggregated.per_file[wk[w].filepath] = NewMetrics
                          /\ aggregated.files_processed
                                 = Cardinality(DOMAIN aggregated.per_file)
                          /\ aggregated.errors
                                 = Cardinality({ f \in DOMAIN aggregated.per_file :
                                       "error" \in DOMAIN aggregated.per_file[f] })
                          /\ Workers = {w} => aggregated.errors = 0

\* the second run on a file without rows has returned and main has counted it
C17_Witness ==
    \E w \in Workers :
        /\ NoBankOrNoRows(wk[w].filepath)
        /\ runs < MaxRuns - 1
        /\ wk[w].prev_ok
        /\ wk[w].pc = "done"
        /\ mainpc = "idle"
        /\ aggregated.files_processed = 1
        /\ aggregated.errors = 0


\* a is b with some of its entries left out, the others in b's order
RECURSIVE Scattered(_, _)
Scattered(a, b) ==
    IF a = <<>> THEN TRUE
    ELSE IF b = <<>> THEN FALSE
    ELSE IF Head(a) = Head(b) THEN Scattered(Tail(a), Tail(b))
    ELSE Scattered(a, Tail(b))

\* the entries of the collected stages (MiniLM writes its own) that the pass
\* of w has stored for its transactions, in the order stored
StoredCollected(w) ==
    LET collected == wk[w].classification_log
        mine == { collected[k].txn_id : k \in DOMAIN collected }
        Keep(e) == e.txn_id \in mine /\ e.stage # "bert"
    IN SelectSeq(SubSeq(classification_log, wk[w].log0 + 1,
                        Len(classification_log)), Keep)

\* what the fallback has stored is what it has gone through, less the entries
\* it skipped, each once and in collection order
FallbackStored(w) ==
    /\ wk[w].pc = "bulk_fallback" =>
          /\ conn[w] = NoWrites
          /\ Scattered(StoredCollected(w),
                       SubSeq(wk[w].classification_log, 1, wk[w].i - 1))
    /\ wk[w].pc = "docstatus" =>
          Scattered(StoredCollected(w), wk[w].classification_log)

\* the step of w that finds the bulk write rejected stores nothing and starts
\* the fallback at the first collected entry
RejectedStep(w) ==
    wk[w].pc = "bulk" /\ wk'[w] # wk[w] =>
        /\ wk'[w].pc \in {"bulk_fallback", "docstatus"}
        /\ wk'[w].pc = "bulk_fallback" =>
              /\ classification_log' = classification_log
              /\ transactions' = transactions
              /\ conn'[w] = NoWrites
              /\ wk'[w].i = 1
              /\ wk'[w].classification_log = wk[w].classification_log

\* one step of the fallback takes the next collected entry, stores it unless
\* its write fails, and goes on to the entry after it
FallbackStep(w) ==
    wk[w].pc = "bulk_fallback" /\ wk'[w] # wk[w] =>
        LET collected == wk[w].classification_log
            i == wk[w].i
        IN /\ classification_log' \in
                  {classification_log, Append(classification_log, collected[i])}
           /\ faults' = faults =>
                  classification_log' = Append(classification_log, collected[i])
           /\ transactions' = transactions
           /\ wk'[w].classification_log = collected
           /\ IF i < Len(collected)
              THEN wk'[w].pc = "bulk_fallback" /\ wk'[w].i = i + 1
              ELSE wk'[w].pc = "docstatus"

UpiMerchantCall ==
    /\ call.pc = "return"
    /\ call.fn = "classify_with_regex"
    /\ call.arg.type = "str"
    /\ "UPI" \in Words(normalize_desc(call.arg.str))
    /\ \E n \in 1..3 :
          /\ upi_patterns(normalize_desc(call.arg.str))[n].matched
          /\ MerchantKeys(upi_patterns(normalize_desc(call.arg.str))[n].merchant) # {}

\* the vendor key the first such pattern meets first
UpiMerchantKey ==
    LET patterns == upi_patterns(normalize_desc(call.arg.str))
        n == FirstOf({ m \in 1..3 : /\ patterns[m].matched
                                     /\ MerchantKeys(patterns[m].merchant) # {} })
    IN VENDOR_KEYS[FirstOf(MerchantKeys(patterns[n].merchant))]

\* C21: whenever the normalized text contains UPI and one of the three
\* ordered extraction patterns yields a merchant that matches a vendor-map
\* key, classify_with_regex returns that key's category and subcategory with
\* confidence 0.90, whatever classify_upi, the vendor-map lookup or the
\* salary rule answer for the same text.
C21_UpiVendorFirst ==
    UpiMerchantCall =>
        /\ call.outcome.exception = NULL
        /\ call.outcome.result.category = VENDOR_CATEGORY_MAP(UpiMerchantKey).category
        /\ call.outcome.result.subcategory =
               VENDOR_CATEGORY_MAP(UpiMerchantKey).subcategory
        /\ call.outcome.result.confidence = 90
        /\ call.outcome.result.meta = "upi_vendor"

\* a text for which classify_upi answers another category than the
\* merchant's key, and the vendor-map lookup another one again at 0.95
C21_Witness ==
    /\ UpiMerchantCall
    /\ UpiAnswerReturned(classify_upi(normalize_desc(call.arg.str)))
    /\ classify_upi(normalize_desc(call.arg.str)).category
           # call.outcome.result.category
    /\ extract_vendor_from_map(normalize_desc(call.arg.str)).confidence = 95
    /\ extract_vendor_from_map(normalize_desc(call.arg.str)).key # UpiMerchantKey
    /\ call.outcome.result.confidence = 90

\* classify_with_regex returned for a text in which classify_upi detects UPI
\* and finds neither a payee handle nor a transaction id, and which meets no
\* vendor key
UpiWithoutDetails ==
    /\ call.pc = "return"
    /\ call.fn = "classify_with_regex"
    /\ call.arg.type = "str"
    /\ classify_upi(normalize_desc(call.arg.str)).category = PENDING
    /\ ~extract_vendor_from_map(normalize_desc(call.arg.str)).matched
    /\ \A n \in 1..3 :
          upi_patterns(normalize_desc(call.arg.str))[n].matched =>
              MerchantKeys(upi_patterns(normalize_desc(call.arg.str))[n].merchant) = {}

\* C22: for a description in which UPI is detected but neither a payee handle
\* nor a transaction-id merchant can be extracted, and which matches no
\* vendor-map key, classify_with_regex returns category PENDING with
\* subcategory UPI at confidence 0.30.
C22_UpiPendingAt30 ==
    UpiWithoutDetails =>
        /\ call.outcome.exception = NULL
        /\ call.outcome.result.category = PENDING
        /\ call.outcome.result.subcategory = "UPI"
        /\ call.outcome.result.confidence = 30

\* the stored row of t carries a label
Labelled(row) == row.category \notin {NULL, PENDING}

\* C23: within one pass, a transaction whose stored category is non-PENDING
\* before a stage runs still has a non-PENDING category after that stage: no
\* step of Stage 3 or Stage 4 replaces a label by PENDING.
C23_LabelNeverLost ==
    [][\A t \in DOMAIN transactions :
          Labelled(transactions[t]) => Labelled(transactions'[t])]_vars

\* the rows of a file for which normalize_txn returns a record
Normalizes(filepath) ==
    { k \in DOMAIN input[filepath].raw_txns :
        LET n == normalize_txn(input[filepath].raw_txns[k], 0)
        IN n.exception = NULL /\ n.returned # <<>> }

\* the transactions stored under the newest statement of a file
StatementRows(filepath) ==
    { t \in DOMAIN transactions :
        transactions[t].statement_id = statement_exists(filepath) }

\* C24: for any sequence of runs on one file in which earlier runs may fail
\* at any step, once a run on the file has completed without reporting an
\* error, the file's statement holds one transaction for every row of the
\* file that normalizes successfully; a run that failed between the creation
\* of the statement and the insertion of the transactions is repaired by the
\* next run.
C24_CompletedRunHoldsEveryRow ==
    \A w \in Workers :
        (wk[w].pc = "done" /\ ~ NothingParsed(input[wk[w].filepath])) =>
            Cardinality(StatementRows(wk[w].filepath))
                = Cardinality(Normalizes(wk[w].filepath))


\* C25: for every interleaving of two workers that process the same (user,
\* original filename) when no statement exists for it yet, at most one
\* statement is created for the file and each of its rows is inserted as a
\* transaction at most once.
C25_OneStatementPerFile ==
    (\E a, b \in Workers : a # b /\ wk[a].filepath = wk[b].filepath) =>
        \A w \in Workers :
            /\ Cardinality(FileStatements(wk[w].filepath)) <= 1
            /\ Len(transactions) <= Cardinality(Normalizes(wk[w].filepath))


\* the verdicts Stage 4 has written in the pass of w
LLMVerdicts(w) ==
    { a \in DOMAIN trace[w] :
        trace[w][a].kind = "verdict" /\ trace[w][a].stage = "llm" }

\* the row of t as the connection of w sees it after the step
ViewAfter(w, t) ==
    IF t \in DOMAIN conn'[w].utxn THEN conn'[w].utxn[t] ELSE transactions'[t]

\* C26: for every number of Stage 4 transactions and every LLM_BATCH_SIZE of
\* one or more, classify_batch answering one result per input in order, every
\* selected transaction is written exactly once and with the result asked for
\* its own description, across batch boundaries too, and no Stage 4 write
\* happens before the last batch has returned.
C26_BatchResultsAligned ==
    /\ [](\A w \in Workers :
            /\ wk[w].pc = "llm_batch" => LLMVerdicts(w) = {}
            /\ wk[w].pc = "llm_write" =>
                  /\ Len(wk[w].llm_results) = Len(wk[w].pending)
                  /\ Len(wk[w].answered) = Len(wk[w].pending)
                  /\ \A k \in DOMAIN wk[w].pending :
                        wk[w].answered[k]
                            = View(w, wk[w].pending[k]).description_raw
                  /\ \A j, k \in DOMAIN wk[w].pending :
                        wk[w].pending[j] = wk[w].pending[k] => j = k
                  /\ Cardinality(LLMVerdicts(w)) = wk[w].i - 1
                  /\ \A k \in 1 .. (wk[w].i - 1) :
                        \E a \in LLMVerdicts(w) : trace[w][a].txn = wk[w].pending[k])
    /\ [][\A w \in Workers :
            /\ (wk[w].pc = "llm_write" /\ wk'[w].pc = "llm_write"
                    /\ wk'[w].i # wk[w].i) =>
                  LET t == wk[w].pending[wk[w].i]
                      r == wk[w].llm_results[wk[w].i]
                  IN /\ wk'[w].i = wk[w].i + 1
                     /\ ViewAfter(w, t).category = r.category
                     /\ ViewAfter(w, t).subcategory = r.subcategory
                     /\ ViewAfter(w, t).confidence = r.confidence
                     /\ ViewAfter(w, t).classification_source = "llm"
            /\ (wk[w].pc = "llm_write" /\ wk'[w].pc \in {"bulk", "done"}) =>
                  wk[w].i = Len(wk[w].pending) + 1 ]_vars

\* two transactions with different descriptions went to the LLM in two
\* batches and both have been written
C26_Witness ==
    \E w \in Workers :
        /\ wk[w].pc = "llm_write"
        /\ LLM_BATCH_SIZE = 1
        /\ Len(wk[w].pending) = 2
        /\ wk[w].i = 3
        /\ wk[w].answered[1] # wk[w].answered[2]
        /\ wk[w].llm_results[1] # wk[w].llm_results[2]


\* the step is Stage 3 of w failing on a transaction: classifying it or
\* persisting its verdict raised
MiniLMFailure(w) ==
    /\ wk[w].pc = "mini"
    /\ Len(trace'[w]) = Len(trace[w]) + 1
    /\ trace'[w][Len(trace'[w])].stage = "bert"
    /\ trace'[w][Len(trace'[w])].kind \in {"failed", "unlogged"}

\* C27: if classifying or persisting one transaction fails in Stage 3, its
\* category, subcategory, confidence, classification_source and log entries
\* are left exactly as they were before Stage 3 touched it, it is counted as
\* mini_pending, the writes committed for other transactions are kept, and
\* Stage 3 continues with the next transaction.
C27_FailedRowUntouched ==
    [][\A w \in Workers :
          MiniLMFailure(w) =>
              /\ transactions' = transactions
              /\ classification_log' = classification_log
              /\ wk'[w].metrics.mini_pending = wk[w].metrics.mini_pending + 1
              /\ wk'[w].metrics.mini_classified = wk[w].metrics.mini_classified
              /\ wk'[w].pc = "mini"
              /\ wk'[w].i = wk[w].i + 1 ]_vars


\* the verdicts a stage has written in the pass of w
Verdicts(w, stage) ==
    { trace[w][a] : a \in { b \in DOMAIN trace[w] :
                              /\ trace[w][b].kind = "verdict"
                              /\ trace[w][b].stage = stage } }

\* the first-time pass of w has just made its Stage 3 selection under the
\* default threshold
FirstSelectionForMiniLM(w) ==
    /\ MINILM_LOW_CONF_THRESHOLD = MINILM_LOW_CONF_DEFAULT
    /\ ~ wk[w].rerun
    /\ wk[w].pc = "mini"
    /\ wk[w].i = 1

\* C28: every result of classify_with_regex other than PENDING has a
\* confidence of 0.70 or more and every PENDING result has 0.0; every result
\* of classify_with_heuristics other than PENDING has 0.55 or more; so under
\* the default MINILM_LOW_CONF_THRESHOLD of 0.50 the transactions Stage 3
\* selects in a first-time pass are exactly those whose category is still
\* PENDING after Stage 2.
C28_ConfidenceFloors ==
    \A w \in Workers :
        /\ \A e \in Verdicts(w, "regex") :
              IF e.category = PENDING THEN e.confidence = 0 ELSE e.confidence >= 70
        /\ \A e \in Verdicts(w, "heuristic") :
              e.category # PENDING => e.confidence >= 55
        /\ FirstSelectionForMiniLM(w) =>
              { wk[w].pending[k] : k \in DOMAIN wk[w].pending }
                  = { t \in DOMAIN transactions :
                        /\ transactions[t].statement_id = wk[w].statement_id
                        /\ transactions[t].category = PENDING }

\* a first-time pass labelled one row by regex at 0.70 and the other by
\* heuristics at 0.55, and Stage 3 selected neither
C28_Witness ==
    \E w \in Workers :
        /\ FirstSelectionForMiniLM(w)
        /\ \E e \in Verdicts(w, "regex") : e.category # PENDING /\ e.confidence = 70
        /\ \E e \in Verdicts(w, "heuristic") : e.confidence = 55
        /\ wk[w].pending = <<>>


\* the positions in classification_log of the entries persisted since the
\* pass of w began
PersistedInPass(w) == (wk[w].log0 + 1) .. Len(classification_log)

\* C29: for every transaction, the log entries persisted during one pass are
\* appended in the order in which the stages ran on it: regex before
\* heuristic before bert before llm.
C29_LogInStageOrder ==
    \A w \in Workers :
        \A a, b \in PersistedInPass(w) :
            (a < b /\ classification_log[a].txn_id = classification_log[b].txn_id) =>
                StageRank(classification_log[a].stage)
                    <= StageRank(classification_log[b].stage)


\* the first-time pass of w over a parsed file has completed without error
FirstPassCompleted(w) ==
    /\ wk[w].pc = "done"
    /\ ~ wk[w].rerun
    /\ ~ NothingParsed(input[wk[w].filepath])

\* C30: after a first-time pass that completes without error the counters
\* form a funnel: regex_attempted = inserted, heur_attempted =
\* regex_attempted - regex_classified, heur_classified <= heur_attempted,
\* mini_attempted >= heur_attempted - heur_classified, mini_classified +
\* mini_pending = mini_attempted, llm_classified <= llm_attempted.
C30_CountersFormFunnel ==
    \A w \in Workers :
        FirstPassCompleted(w) =>
            LET m == wk[w].metrics
            IN /\ m.regex_attempted = m.inserted
               /\ m.heur_attempted = m.regex_attempted - m.regex_classified
               /\ m.heur_classified <= m.heur_attempted
               /\ m.mini_attempted >= m.heur_attempted - m.heur_classified
               /\ m.mini_classified + m.mini_pending = m.mini_attempted
               /\ m.llm_classified <= m.llm_attempted

\* a completed first-time pass in which regex labelled one of two rows,
\* Stage 3 took more rows than heuristics left PENDING and the LLM labelled one
C30_Witness ==
    \E w \in Workers :
        /\ FirstPassCompleted(w)
        /\ wk[w].metrics.inserted = 2
        /\ wk[w].metrics.regex_classified = 1
        /\ wk[w].metrics.heur_attempted = 1
        /\ wk[w].metrics.mini_attempted
               > wk[w].metrics.heur_attempted - wk[w].metrics.heur_classified
        /\ wk[w].metrics.mini_pending = 1
        /\ wk[w].metrics.llm_classified = 1


=============================================================================
